---- MODULE Spec2Model ----
(***************************************************************************)
(* A model of the response-recovery pipeline of src/src/analysis.py:       *)
(* strict JSON parsing, the repair filter chain (clean_json_response), the *)
(* regex field extractor (extract_structured_data), the two normalizers    *)
(* (the restructuring tail of parse_and_clean_json, post_process_analysis) *)
(* and the caller analyze_tos.                                             *)
(*                                                                         *)
(* A text is a sequence of one-character strings.  A JSON / Python value   *)
(* is a record of one fixed shape (see JNull .. JDict) so that any two     *)
(* values can be compared.                                                 *)
(***************************************************************************)
EXTENDS Integers, Sequences, FiniteSets, TLC

\* ------------------------------------------------------------------------
\* Characters
\* ------------------------------------------------------------------------
Digits == {"0", "1", "2", "3", "4", "5", "6", "7", "8", "9"}

HexLetters == {"a", "b", "c", "d", "e", "f", "A", "B", "C", "D", "E", "F"}

Letters ==
    {"a", "b", "c", "d", "e", "f", "g", "h", "i", "j", "k", "l", "m",
     "n", "o", "p", "q", "r", "s", "t", "u", "v", "w", "x", "y", "z",
     "A", "B", "C", "D", "E", "F", "G", "H", "I", "J", "K", "L", "M",
     "N", "O", "P", "Q", "R", "S", "T", "U", "V", "W", "X", "Y", "Z"}

\* \w of the re module, on ASCII text
WordChars == Letters \cup Digits \cup {"_"}

\* [a-zA-Z_] and [a-zA-Z0-9_] of the key-quoting pattern
IdentStart == Letters \cup {"_"}

\* The control characters of the modelled character set.  "<VT>", "<FS>",
\* "<NUL>", "<BS>" and "<DEL>" name the characters 0x0b, 0x1c, 0x00, 0x08
\* and 0x7f, which have no escape in a TLA+ string.
ControlChars == {"\t", "\n", "\r", "\f", "<VT>", "<FS>", "<NUL>", "<BS>", "<DEL>"}

\* what str.strip() strips and what \s matches
PyWhitespace == {" ", "\t", "\n", "\r", "\f", "<VT>", "<FS>"}

\* WHITESPACE of json.decoder: [ \t\n\r]*
JsonWhitespace == {" ", "\t", "\n", "\r"}

\* characters json's strict string scanner rejects unescaped (below 0x20)
JsonControl == ControlChars \ {"<DEL>"}

DigitVal(c) ==
    CASE c = "0" -> 0 [] c = "1" -> 1 [] c = "2" -> 2 [] c = "3" -> 3
      [] c = "4" -> 4 [] c = "5" -> 5 [] c = "6" -> 6 [] c = "7" -> 7
      [] c = "8" -> 8 [] c = "9" -> 9
      [] c \in {"a", "A"} -> 10 [] c \in {"b", "B"} -> 11
      [] c \in {"c", "C"} -> 12 [] c \in {"d", "D"} -> 13
      [] c \in {"e", "E"} -> 14 [] c \in {"f", "F"} -> 15

DigitChar(n) ==
    CASE n = 0 -> "0" [] n = 1 -> "1" [] n = 2 -> "2" [] n = 3 -> "3"
      [] n = 4 -> "4" [] n = 5 -> "5" [] n = 6 -> "6" [] n = 7 -> "7"
      [] n = 8 -> "8" [] n = 9 -> "9" [] n = 10 -> "a" [] n = 11 -> "b"
      [] n = 12 -> "c" [] n = 13 -> "d" [] n = 14 -> "e" [] n = 15 -> "f"

\* printable ASCII, 0x20 .. 0x7e, in code order ("<GRAVE>" names 0x60, which a
\* TLA+ string cannot hold)
Ascii ==
    <<" ", "!", "\"", "#", "$", "%", "&", "'", "(", ")", "*", "+", ",", "-", ".", "/",
      "0", "1", "2", "3", "4", "5", "6", "7", "8", "9", ":", ";", "<", "=", ">", "?",
      "@", "A", "B", "C", "D", "E", "F", "G", "H", "I", "J", "K", "L", "M", "N", "O",
      "P", "Q", "R", "S", "T", "U", "V", "W", "X", "Y", "Z", "[", "\\", "]", "^", "_",
      "<GRAVE>", "a", "b", "c", "d", "e", "f", "g", "h", "i", "j", "k", "l", "m", "n", "o",
      "p", "q", "r", "s", "t", "u", "v", "w", "x", "y", "z", "{", "|", "}", "~">>

\* the character a \uXXXX escape denotes; a code point outside the modelled
\* character set is kept as the symbolic character "\uxxxx"
CodeChar(code) ==
    CASE code \in 32..126 -> Ascii[code - 31]
      [] code = 9 -> "\t" [] code = 10 -> "\n" [] code = 13 -> "\r"
      [] code = 12 -> "\f" [] code = 11 -> "<VT>" [] code = 28 -> "<FS>"
      [] code = 0 -> "<NUL>" [] code = 8 -> "<BS>" [] code = 127 -> "<DEL>"
      [] OTHER -> "\\u" \o DigitChar(code \div 4096) \o DigitChar((code \div 256) % 16)
                        \o DigitChar((code \div 16) % 16) \o DigitChar(code % 16)

\* ------------------------------------------------------------------------
\* Text helpers (str methods)
\* ------------------------------------------------------------------------
\* s[i:] with a 1-based i
From(s, i) == IF i > Len(s) THEN <<>> ELSE SubSeq(s, i, Len(s))

\* s.startswith(p) at offset i: s[i .. i+Len(p)-1] = p
MatchAt(s, i, p) ==
    /\ i >= 1
    /\ i + Len(p) - 1 <= Len(s)
    /\ \A k \in 1..Len(p) : s[i + k - 1] = p[k]

startswith(s, p) == MatchAt(s, 1, p)

endswith(s, p) == Len(s) >= Len(p) /\ MatchAt(s, Len(s) - Len(p) + 1, p)

\* str.strip(): drop leading and trailing whitespace
strip(s) ==
    LET keep == {i \in 1..Len(s) : s[i] \notin PyWhitespace}
    IN  IF keep = {} THEN <<>>
        ELSE LET lo == CHOOSE i \in keep : \A j \in keep : i <= j
                 hi == CHOOSE i \in keep : \A j \in keep : j <= i
             IN  SubSeq(s, lo, hi)

\* s.rfind(c) as a 1-based index, 0 when c does not occur (Python's -1)
rfind(s, c) ==
    LET at == {i \in 1..Len(s) : s[i] = c}
    IN  IF at = {} THEN 0 ELSE CHOOSE i \in at : \A j \in at : j <= i

\* s.count(c)
count(s, c) == Cardinality({i \in 1..Len(s) : s[i] = c})

\* c * n for a one-character string c; the empty text when n <= 0
Repeat(c, n) == [i \in 1..(IF n > 0 THEN n ELSE 0) |-> c]

\* the least element of a non-empty set of integers
Least(I) == CHOOSE i \in I : \A j \in I : i <= j

\* first index >= i whose character is outside set, Len(s)+1 if none
SkipWhile(s, i, set) ==
    Least({j \in i..(Len(s) + 1) : j = Len(s) + 1 \/ s[j] \notin set} \cup {Len(s) + 1})

\* first index >= i whose character is in set, Len(s)+1 if none
SkipUntil(s, i, set) ==
    Least({j \in i..(Len(s) + 1) : j = Len(s) + 1 \/ s[j] \in set} \cup {Len(s) + 1})

\* ------------------------------------------------------------------------
\* Values: what json.loads returns and what the normalizers build
\* ------------------------------------------------------------------------
\* One record shape for every value.  t is the Python type; a number is the
\* rational n/d (d a power of ten, d = 0 for nan/inf), f says it is a float;
\* items are the elements of a list (k = <<>>) or the entries of a dict, in
\* insertion order.
Blank == [t |-> "None", b |-> FALSE, n |-> 0, d |-> 1, f |-> FALSE,
          s |-> <<>>, items |-> <<>>]

JNull == Blank
JBool(b) == [Blank EXCEPT !.t = "bool", !.b = b]
JInt(n) == [Blank EXCEPT !.t = "num", !.n = n]
JStr(s) == [Blank EXCEPT !.t = "str", !.s = s]
JList(items) == [Blank EXCEPT !.t = "list", !.items = items]
JDict(items) == [Blank EXCEPT !.t = "dict", !.items = items]

RECURSIVE Reduce10(_, _)
Reduce10(n, d) ==
    IF d > 1 /\ n % 10 = 0 THEN Reduce10(n \div 10, d \div 10) ELSE <<n, d>>

\* the float n/d, in lowest power-of-ten terms
JFloat(n, d) ==
    LET r == Reduce10(n, d)
    IN  [Blank EXCEPT !.t = "num", !.n = r[1], !.d = r[2], !.f = TRUE]

JNaN == [Blank EXCEPT !.t = "num", !.d = 0, !.f = TRUE]
JInf(sign) == [Blank EXCEPT !.t = "num", !.n = sign, !.d = 0, !.f = TRUE]

Item(k, v) == [k |-> k, v |-> v]

\* list element
Elem(v) == Item(<<>>, v)

isinstance(v, type) == v.t = type

\* key in d
Has(d, k) == \E i \in 1..Len(d.items) : d.items[i].k = k

\* d.get(k, default)
Get(d, k, default) ==
    IF Has(d, k)
    THEN d.items[CHOOSE i \in 1..Len(d.items) : d.items[i].k = k].v
    ELSE default

\* d[k] = v : replaces the entry in place, or appends it
Set(d, k, v) ==
    IF Has(d, k)
    THEN JDict([i \in 1..Len(d.items) |->
                  IF d.items[i].k = k THEN Item(k, v) ELSE d.items[i]])
    ELSE JDict(Append(d.items, Item(k, v)))

\* bool(v): the truth value `not v` negates
Truthy(v) ==
    CASE v.t = "None" -> FALSE
      [] v.t = "bool" -> v.b
      [] v.t = "num" -> v.n # 0 \/ v.d = 0
      [] v.t = "str" -> v.s # <<>>
      [] OTHER -> v.items # <<>>

\* ------------------------------------------------------------------------
\* json.loads: the strict parser (json.decoder / json.scanner of the standard
\* library, which analysis.py calls at lines 154, 290, 296, 394 and 402)
\* ------------------------------------------------------------------------
\* a parse result: ok, the value, the index after it, and the decoder's message
Ok(v, pos) == [ok |-> TRUE, val |-> v, pos |-> pos, err |-> ""]
Fail(msg, pos) == [ok |-> FALSE, val |-> JNull, pos |-> pos, err |-> msg]

\* BACKSLASH of json.decoder
Unescape(c) ==
    CASE c = "b" -> "<BS>" [] c = "f" -> "\f" [] c = "n" -> "\n"
      [] c = "r" -> "\r" [] c = "t" -> "\t" [] OTHER -> c

\* scanstring: i is the index after the opening quote (or after the last
\* escape), acc the characters decoded so far; a chunk of plain characters
\* (STRINGCHUNK) ends at index j, at a quote, a backslash or a control character
RECURSIVE scanstring(_, _, _)
scanstring(s, i, acc) ==
    LET Chunk(j, chunk) ==
            IF j > Len(s) THEN Fail("Unterminated string starting at", j)
            ELSE IF s[j] = "\"" THEN Ok(JStr(chunk), j + 1)
            ELSE IF s[j] # "\\" THEN Fail("Invalid control character at", j)
            ELSE IF j + 1 > Len(s) THEN Fail("Unterminated string starting at", j)
            ELSE IF s[j + 1] = "u" THEN
                IF j + 5 <= Len(s) /\ \A k \in 2..5 : s[j + k] \in Digits \cup HexLetters
                THEN scanstring(s, j + 6,
                         Append(chunk, CodeChar(4096 * DigitVal(s[j + 2]) + 256 * DigitVal(s[j + 3])
                                                + 16 * DigitVal(s[j + 4]) + DigitVal(s[j + 5]))))
                ELSE Fail("Invalid \\uXXXX escape", j)
            ELSE IF s[j + 1] \in {"\"", "\\", "/", "b", "f", "n", "r", "t"}
            THEN scanstring(s, j + 2, Append(chunk, Unescape(s[j + 1])))
            ELSE Fail("Invalid \\escape", j)
        End(j) == Chunk(j, acc \o SubSeq(s, i, j - 1))
    IN  End(SkipUntil(s, i, {"\"", "\\"} \cup JsonControl))

\* the value of the digits s[i .. j-1], most significant first
RECURSIVE DigitsValue(_, _, _, _)
DigitsValue(s, i, j, acc) ==
    IF i >= j THEN acc ELSE DigitsValue(s, i + 1, j, 10 * acc + DigitVal(s[i]))

RECURSIVE Pow10(_)
Pow10(k) == IF k <= 0 THEN 1 ELSE 10 * Pow10(k - 1)

\* NUMBER_RE = (-?(?:0|[1-9]\d*))(\.\d+)?([eE][-+]?\d+)? matched at i;
\* an int when only the first group matches, else a float.
\* The integer digits are s[i0 .. i1-1], the fraction digits s[i1+1 .. f1-1]
\* (a fraction when f1 > i1 + 1), i2 is the index after integer and fraction,
\* and the exponent digits are s[e0 .. e1-1] (an exponent when e1 > e0 > i2).
ScanNumber(s, i) ==
    LET Number(i0, i1, f1, i2, e0, e1) ==
            LET hasFrac == f1 > i1 + 1
                hasExp == e0 > i2 /\ e1 > e0
                sign == IF i0 > i THEN -1 ELSE 1
                int == DigitsValue(s, i0, i1, 0)
                nfrac == IF hasFrac THEN f1 - i1 - 1 ELSE 0
                frac == IF hasFrac THEN DigitsValue(s, i1 + 1, f1, 0) ELSE 0
                exp == IF hasExp THEN DigitsValue(s, e0, e1, 0) ELSE 0
                expNeg == hasExp /\ s[e0 - 1] = "-"
                num == sign * (int * Pow10(nfrac) + frac) * (IF expNeg THEN 1 ELSE Pow10(exp))
                den == Pow10(nfrac) * (IF expNeg THEN Pow10(exp) ELSE 1)
            IN  IF i1 = i0 THEN Fail("Expecting value", i)
                ELSE IF hasFrac \/ hasExp THEN Ok(JFloat(num, den), IF hasExp THEN e1 ELSE i2)
                ELSE Ok(JInt(sign * int), i1)
        ExpDigits(i0, i1, f1, i2, e0) ==
            Number(i0, i1, f1, i2, e0, IF e0 > i2 THEN SkipWhile(s, e0, Digits) ELSE i2)
        ExpMark(i0, i1, f1, i2) ==
            ExpDigits(i0, i1, f1, i2,
                      IF i2 <= Len(s) /\ s[i2] \in {"e", "E"}
                      THEN (IF i2 + 1 <= Len(s) /\ s[i2 + 1] \in {"+", "-"} THEN i2 + 2 ELSE i2 + 1)
                      ELSE i2)
        Frac(i0, i1, f1) == ExpMark(i0, i1, f1, IF f1 > i1 + 1 THEN f1 ELSE i1)
        Point(i0, i1) ==
            Frac(i0, i1, IF i1 <= Len(s) /\ s[i1] = "." THEN SkipWhile(s, i1 + 1, Digits) ELSE i1)
        Whole(i0) ==
            Point(i0, IF i0 <= Len(s) /\ s[i0] = "0" THEN i0 + 1 ELSE SkipWhile(s, i0, Digits))
    IN  Whole(IF i <= Len(s) /\ s[i] = "-" THEN i + 1 ELSE i)

RECURSIVE scan_once(_, _), JSONObject(_, _, _), JSONArray(_, _, _)

\* py_make_scanner._scan_once
scan_once(s, i) ==
    LET Object(j) ==
            \* JSONObject, up to the first key
            IF j <= Len(s) /\ s[j] = "}" THEN Ok(JDict(<<>>), j + 1)
            ELSE IF j <= Len(s) /\ s[j] = "\"" THEN JSONObject(s, j + 1, JDict(<<>>))
            ELSE Fail("Expecting property name enclosed in double quotes", j)
        Array(j) ==
            \* JSONArray, up to the first element
            IF j <= Len(s) /\ s[j] = "]" THEN Ok(JList(<<>>), j + 1)
            ELSE JSONArray(s, j, <<>>)
        NumberOr(m) ==
            IF m.ok THEN m
            ELSE IF MatchAt(s, i, <<"N", "a", "N">>) THEN Ok(JNaN, i + 3)
            ELSE IF MatchAt(s, i, <<"I", "n", "f", "i", "n", "i", "t", "y">>)
            THEN Ok(JInf(1), i + 8)
            ELSE IF MatchAt(s, i, <<"-", "I", "n", "f", "i", "n", "i", "t", "y">>)
            THEN Ok(JInf(-1), i + 9)
            ELSE Fail("Expecting value", i)
    IN  IF i > Len(s) THEN Fail("Expecting value", i)
        ELSE IF s[i] = "\"" THEN scanstring(s, i + 1, <<>>)
        ELSE IF s[i] = "{" THEN Object(SkipWhile(s, i + 1, JsonWhitespace))
        ELSE IF s[i] = "[" THEN Array(SkipWhile(s, i + 1, JsonWhitespace))
        ELSE IF MatchAt(s, i, <<"n", "u", "l", "l">>) THEN Ok(JNull, i + 4)
        ELSE IF MatchAt(s, i, <<"t", "r", "u", "e">>) THEN Ok(JBool(TRUE), i + 4)
        ELSE IF MatchAt(s, i, <<"f", "a", "l", "s", "e">>) THEN Ok(JBool(FALSE), i + 5)
        ELSE NumberOr(ScanNumber(s, i))

\* JSONObject's loop: i is the index after a key's opening quote, d the
\* entries so far (a repeated key keeps its first position, its last value).
\* key is the scanned key, c the index of the colon, v the scanned value,
\* e the index of the comma or brace after it, n the index of the next key.
JSONObject(s, i, d) ==
    LET Next_(key, v, e, n) ==
            IF ~v.ok THEN v
            ELSE IF e <= Len(s) /\ s[e] = "}" THEN Ok(Set(d, key.val.s, v.val), e + 1)
            ELSE IF ~(e <= Len(s) /\ s[e] = ",") THEN Fail("Expecting ',' delimiter", e)
            ELSE IF ~(n <= Len(s) /\ s[n] = "\"")
            THEN Fail("Expecting property name enclosed in double quotes", n)
            ELSE JSONObject(s, n + 1, Set(d, key.val.s, v.val))
        After(key, v, e) == Next_(key, v, e, SkipWhile(s, e + 1, JsonWhitespace))
        Value(key, v) == After(key, v, SkipWhile(s, v.pos, JsonWhitespace))
        Colon(key, c) ==
            IF ~(c <= Len(s) /\ s[c] = ":") THEN Fail("Expecting ':' delimiter", c)
            ELSE Value(key, scan_once(s, SkipWhile(s, c + 1, JsonWhitespace)))
        Key(key) == IF ~key.ok THEN key ELSE Colon(key, SkipWhile(s, key.pos, JsonWhitespace))
    IN  Key(scanstring(s, i, <<>>))

\* JSONArray's loop: i is the index of the next element, v the scanned
\* element, e the index of the comma or bracket after it
JSONArray(s, i, items) ==
    LET After(v, e) ==
            IF e <= Len(s) /\ s[e] = "]" THEN Ok(JList(Append(items, Elem(v.val))), e + 1)
            ELSE IF ~(e <= Len(s) /\ s[e] = ",") THEN Fail("Expecting ',' delimiter", e)
            ELSE JSONArray(s, SkipWhile(s, e + 1, JsonWhitespace), Append(items, Elem(v.val)))
        Value(v) == IF ~v.ok THEN v ELSE After(v, SkipWhile(s, v.pos, JsonWhitespace))
    IN  Value(scan_once(s, i))

\* JSONDecoder.decode: one value, whitespace around it, nothing after it.
\* ok = FALSE stands for json.JSONDecodeError, err for its message.
json_loads(s) ==
    LET End(r, end) == IF end # Len(s) + 1 THEN Fail("Extra data", end) ELSE r
        Value(r) == IF ~r.ok THEN r ELSE End(r, SkipWhile(s, r.pos, JsonWhitespace))
    IN  Value(scan_once(s, SkipWhile(s, 1, JsonWhitespace)))

\* ------------------------------------------------------------------------
\* json.dumps with its defaults (separators ", " and ": ", ensure_ascii),
\* called at analysis.py line 394
\* ------------------------------------------------------------------------
\* the decimal digits of n >= 0
RECURSIVE NatText(_)
NatText(n) == IF n < 10 THEN <<DigitChar(n)>> ELSE Append(NatText(n \div 10), DigitChar(n % 10))

IntText(n) == IF n < 0 THEN <<"-">> \o NatText(-n) ELSE NatText(n)

\* digits without trailing zeros
RECURSIVE StripZeros(_)
StripZeros(ds) ==
    IF Len(ds) > 0 /\ ds[Len(ds)] = "0" THEN StripZeros(SubSeq(ds, 1, Len(ds) - 1)) ELSE ds

\* the number of k with Pow10(k) = d
RECURSIVE Log10(_)
Log10(d) == IF d <= 1 THEN 0 ELSE 1 + Log10(d \div 10)

\* float.__repr__ of the finite float n/d: positional notation when the
\* decimal exponent is in -4 .. 15, else d[.ddd]e+XX
FloatRepr(n, d) ==
    LET neg == IF n < 0 THEN <<"-">> ELSE <<>>
        a == IF n < 0 THEN -n ELSE n
        k == Log10(d)
        ds == NatText(a)
        e == Len(ds) - 1 - k
        fracDigits == NatText(a % d)
        frac == IF k = 0 THEN <<"0">>
                ELSE Repeat("0", k - Len(fracDigits)) \o fracDigits
        mant == StripZeros(SubSeq(ds, 2, Len(ds)))
        ea == IF e < 0 THEN -e ELSE e
    IN  IF a = 0 THEN <<"0", ".", "0">>
        ELSE IF e >= -4 /\ e < 16
        THEN neg \o NatText(a \div d) \o <<".">> \o frac
        ELSE neg \o <<ds[1]>> \o (IF mant = <<>> THEN <<>> ELSE <<".">> \o mant)
                 \o <<"e", IF e < 0 THEN "-" ELSE "+">>
                 \o (IF ea < 10 THEN <<"0">> ELSE <<>>) \o NatText(ea)

\* ESCAPE_ASCII / ESCAPE_DCT of json.encoder for one character
EscapeChar(c) ==
    CASE c = "\"" -> <<"\\", "\"">>
      [] c = "\\" -> <<"\\", "\\">>
      [] c = "\n" -> <<"\\", "n">>
      [] c = "\r" -> <<"\\", "r">>
      [] c = "\t" -> <<"\\", "t">>
      [] c = "\f" -> <<"\\", "f">>
      [] c = "<BS>" -> <<"\\", "b">>
      [] c = "<VT>" -> <<"\\", "u", "0", "0", "0", "b">>
      [] c = "<FS>" -> <<"\\", "u", "0", "0", "1", "c">>
      [] c = "<NUL>" -> <<"\\", "u", "0", "0", "0", "0">>
      [] c = "<DEL>" -> <<"\\", "u", "0", "0", "7", "f">>
      [] OTHER -> <<c>>

RECURSIVE EscapeText(_)
EscapeText(s) == IF s = <<>> THEN <<>> ELSE EscapeChar(Head(s)) \o EscapeText(Tail(s))

Quoted(s) == <<"\"">> \o EscapeText(s) \o <<"\"">>

RECURSIVE json_dumps(_), DumpItems(_, _, _)
json_dumps(v) ==
    CASE v.t = "None" -> <<"n", "u", "l", "l">>
      [] v.t = "bool" -> IF v.b THEN <<"t", "r", "u", "e">> ELSE <<"f", "a", "l", "s", "e">>
      [] v.t = "num" ->
            IF ~v.f THEN IntText(v.n)
            ELSE IF v.d # 0 THEN FloatRepr(v.n, v.d)
            ELSE IF v.n = 0 THEN <<"N", "a", "N">>
            ELSE (IF v.n < 0 THEN <<"-">> ELSE <<>>) \o <<"I", "n", "f", "i", "n", "i", "t", "y">>
      [] v.t = "str" -> Quoted(v.s)
      [] v.t = "list" -> <<"[">> \o DumpItems(v.items, 1, FALSE) \o <<"]">>
      [] v.t = "dict" -> <<"{">> \o DumpItems(v.items, 1, TRUE) \o <<"}">>

DumpItems(items, i, keyed) ==
    IF i > Len(items) THEN <<>>
    ELSE (IF i > 1 THEN <<",", " ">> ELSE <<>>)
         \o (IF keyed THEN Quoted(items[i].k) \o <<":", " ">> ELSE <<>>)
         \o json_dumps(items[i].v)
         \o DumpItems(items, i + 1, keyed)

\* ------------------------------------------------------------------------
\* clean_json_response (analysis.py 360-415): the repair filter chain
\* ------------------------------------------------------------------------
\* 365-371: strip, then wrap in curly braces where missing
EnsureBraces(response_text) ==
    LET t0 == strip(response_text)
        t1 == IF ~startswith(t0, <<"{">>) THEN <<"{">> \o t0 ELSE t0
    IN  IF ~endswith(t1, <<"}">>) THEN t1 \o <<"}">> ELSE t1

\* 374: re.sub(r'(?<!\\)\\(?!\\)"', '\\"', text): a backslash that is not
\* preceded by a backslash and is followed by a quote; the replacement
\* template \" expands to backslash, quote.  i is where the scan resumes.
RECURSIVE EscapeQuotes(_, _)
EscapeQuotes(s, i) ==
    LET hits == {p \in i..(Len(s) - 1) :
                    /\ s[p] = "\\"
                    /\ (p = 1 \/ s[p - 1] # "\\")
                    /\ s[p + 1] # "\\" /\ s[p + 1] = "\""}
        p == Least(hits)
    IN  IF hits = {} THEN From(s, i)
        ELSE SubSeq(s, i, p - 1) \o <<"\\", "\"">> \o EscapeQuotes(s, p + 2)

\* 377: re.sub(r"(?<!\w)'(?!\w)", '"', text)
SingleToDoubleQuotes(s) ==
    [i \in 1..Len(s) |->
        IF /\ s[i] = "'"
           /\ (i = 1 \/ s[i - 1] \notin WordChars)
           /\ (i = Len(s) \/ s[i + 1] \notin WordChars)
        THEN "\"" ELSE s[i]]

\* 380: re.sub(r'(?<!\\)\\n', r'\\n', text): backslash, n not preceded by a
\* backslash; the replacement template \\n expands to backslash, n
RECURSIVE EscapeNewlines(_, _)
EscapeNewlines(s, i) ==
    LET hits == {p \in i..(Len(s) - 1) :
                    /\ s[p] = "\\"
                    /\ (p = 1 \/ s[p - 1] # "\\")
                    /\ s[p + 1] = "n"}
        p == Least(hits)
    IN  IF hits = {} THEN From(s, i)
        ELSE SubSeq(s, i, p - 1) \o <<"\\", "n">> \o EscapeNewlines(s, p + 2)

\* 383: drop every character whose unicodedata category starts with 'C'
RemoveControl(s) ==
    LET IsNotControl(ch) == ch \notin ControlChars
    IN  SelectSeq(s, IsNotControl)

\* 386: re.sub(r'([{,]\s*)([a-zA-Z_][a-zA-Z0-9_]*)\s*:', r'\1"\2":', text)
RECURSIVE QuoteKeys(_, _)
QuoteKeys(s, i) ==
    LET Name(p) == SkipWhile(s, p + 1, PyWhitespace)
        NameEnd(p) == SkipWhile(s, Name(p), WordChars)
        Colon(p) == SkipWhile(s, NameEnd(p), PyWhitespace)
        hits == {p \in i..Len(s) :
                    /\ s[p] \in {"{", ","}
                    /\ Name(p) <= Len(s) /\ s[Name(p)] \in IdentStart
                    /\ Colon(p) <= Len(s) /\ s[Colon(p)] = ":"}
        p == Least(hits)
    IN  IF hits = {} THEN From(s, i)
        ELSE SubSeq(s, i, Name(p) - 1) \o <<"\"">> \o SubSeq(s, Name(p), NameEnd(p) - 1)
             \o <<"\"", ":">> \o QuoteKeys(s, Colon(p) + 1)

\* 389: re.sub(r',\s*([\]}])', r'\1', text)
RECURSIVE RemoveTrailingCommas(_, _)
RemoveTrailingCommas(s, i) ==
    LET Closer(p) == SkipWhile(s, p + 1, PyWhitespace)
        hits == {p \in i..Len(s) :
                    s[p] = "," /\ Closer(p) <= Len(s) /\ s[Closer(p)] \in {"]", "}"}}
        p == Least(hits)
    IN  IF hits = {} THEN From(s, i)
        ELSE SubSeq(s, i, p - 1) \o <<s[Closer(p)]>> \o RemoveTrailingCommas(s, Closer(p) + 1)

\* 392-396: a quoted object that parses is replaced by its re-serialization
replace_nested_json(match) ==
    LET Dumped(r) == IF r.ok THEN json_dumps(r.val) ELSE match
    IN  Dumped(json_loads(SubSeq(match, 2, Len(match) - 1)))

\* 398: re.sub(r'"(\{[^}]*\})"', replace_nested_json, text)
RECURSIVE ReplaceNested(_, _)
ReplaceNested(s, i) ==
    LET Close(p) == SkipUntil(s, p + 2, {"}"})
        hits == {p \in i..(Len(s) - 1) :
                    /\ s[p] = "\"" /\ s[p + 1] = "{"
                    /\ Close(p) + 1 <= Len(s) /\ s[Close(p) + 1] = "\""}
        p == Least(hits)
    IN  IF hits = {} THEN From(s, i)
        ELSE SubSeq(s, i, p - 1) \o replace_nested_json(SubSeq(s, p, Close(p) + 1))
             \o ReplaceNested(s, Close(p) + 2)

\* 400-413: when the text does not parse and the decoder's message is
\* "Expecting ',' delimiter", cut after the last closer and append the
\* missing closers: all the braces, then all the square brackets
CloseTruncated(response_text) ==
    LET Closed(last_complete, cut) ==
            IF last_complete # 0
            THEN cut \o Repeat("}", count(cut, "{") - count(cut, "}"))
                     \o Repeat("]", count(cut, "[") - count(cut, "]"))
            ELSE response_text
        Cut(last_complete) == Closed(last_complete, SubSeq(response_text, 1, last_complete))
        Last(rb, rs) == Cut(IF rb > rs THEN rb ELSE rs)
        Handle(e) ==
            IF ~e.ok /\ e.err = "Expecting ',' delimiter"
            THEN Last(rfind(response_text, "}"), rfind(response_text, "]"))
            ELSE response_text
    IN  Handle(json_loads(response_text))

clean_json_response(response_text) ==
    CloseTruncated(
      ReplaceNested(
        RemoveTrailingCommas(
          QuoteKeys(
            RemoveControl(
              EscapeNewlines(
                SingleToDoubleQuotes(
                  EscapeQuotes(EnsureBraces(response_text), 1)), 1)), 1), 1), 1))

\* ------------------------------------------------------------------------
\* String literals of analysis.py, as texts
\* ------------------------------------------------------------------------
\* 'Initial Assessment' (line 187)
s_Initial_Assessment ==
    <<"I", "n", "i", "t", "i", "a", "l", " ", "A", "s", "s", "e", "s", "s", "m", "e", "n", "t">>

\* 'notable_aspects' (line 189)
s_notable_aspects ==
    <<"n", "o", "t", "a", "b", "l", "e", "_", "a", "s", "p", "e", "c", "t", "s">>

\* 'Overall Assessment' (line 213)
s_Overall_Assessment ==
    <<"O", "v", "e", "r", "a", "l", "l", " ", "A", "s", "s", "e", "s", "s", "m", "e", "n", "t">>

\* 'Categories' (line 333)
s_Categories == <<"C", "a", "t", "e", "g", "o", "r", "i", "e", "s">>

\* 'Final Score' (line 322)
s_Final_Score == <<"F", "i", "n", "a", "l", " ", "S", "c", "o", "r", "e">>

\* 'Letter Grade' (line 323)
s_Letter_Grade == <<"L", "e", "t", "t", "e", "r", " ", "G", "r", "a", "d", "e">>

\* 'Summary' (line 324)
s_Summary == <<"S", "u", "m", "m", "a", "r", "y">>

\* 'Green Flags' (line 325)
s_Green_Flags == <<"G", "r", "e", "e", "n", " ", "F", "l", "a", "g", "s">>

\* 'Red Flags' (line 326)
s_Red_Flags == <<"R", "e", "d", " ", "F", "l", "a", "g", "s">>

\* 'a' (line 341)
s_a == <<"a">>

\* 'b' (line 342)
s_b == <<"b">>

\* 'c' (line 343)
s_c == <<"c">>

\* 'd' (line 344)
s_d == <<"d">>

\* 'initial_assessment' (line 189)
s_initial_assessment ==
    <<"i", "n", "i", "t", "i", "a", "l", "_", "a", "s", "s", "e", "s", "s", "m", "e", "n", "t">>

\* 'categories' (line 210)
s_categories == <<"c", "a", "t", "e", "g", "o", "r", "i", "e", "s">>

\* 'final_score' (line 215)
s_final_score == <<"f", "i", "n", "a", "l", "_", "s", "c", "o", "r", "e">>

\* 'letter_grade' (line 216)
s_letter_grade == <<"l", "e", "t", "t", "e", "r", "_", "g", "r", "a", "d", "e">>

\* 'summary' (line 217)
s_summary == <<"s", "u", "m", "m", "a", "r", "y">>

\* 'green_flags' (line 218)
s_green_flags == <<"g", "r", "e", "e", "n", "_", "f", "l", "a", "g", "s">>

\* 'red_flags' (line 219)
s_red_flags == <<"r", "e", "d", "_", "f", "l", "a", "g", "s">>

\* 'name' (line 204)
s_name == <<"n", "a", "m", "e">>

\* 'user_friendly_aspect' (line 205)
s_user_friendly_aspect ==
    <<"u", "s", "e", "r", "_", "f", "r", "i", "e", "n", "d", "l", "y", "_", "a", "s", "p", "e",
      "c", "t">>

\* 'concerning_aspect' (line 206)
s_concerning_aspect ==
    <<"c", "o", "n", "c", "e", "r", "n", "i", "n", "g", "_", "a", "s", "p", "e", "c", "t">>

\* 'score' (line 207)
s_score == <<"s", "c", "o", "r", "e">>

\* 'justification' (line 208)
s_justification == <<"j", "u", "s", "t", "i", "f", "i", "c", "a", "t", "i", "o", "n">>

\* 'error' (line 129)
s_error == <<"e", "r", "r", "o", "r">>

\* 'raw_response' (line 168)
s_raw_response == <<"r", "a", "w", "_", "r", "e", "s", "p", "o", "n", "s", "e">>

\* 'company_name' (line 162)
s_company_name == <<"c", "o", "m", "p", "a", "n", "y", "_", "n", "a", "m", "e">>

\* 'Clarity and Readability' (line 196)
s_Clarity_and_Readability ==
    <<"C", "l", "a", "r", "i", "t", "y", " ", "a", "n", "d", " ", "R", "e", "a", "d", "a", "b",
      "i", "l", "i", "t", "y">>

\* 'Changes to Terms' (line 198)
s_Changes_to_Terms ==
    <<"C", "h", "a", "n", "g", "e", "s", " ", "t", "o", " ", "T", "e", "r", "m", "s">>

\* 'An error occurred while analyzing the Terms of Service: ' (line 179)
m_exception ==
    <<"A", "n", " ", "e", "r", "r", "o", "r", " ", "o", "c", "c", "u", "r", "r", "e", "d", " ",
      "w", "h", "i", "l", "e", " ", "a", "n", "a", "l", "y", "z", "i", "n", "g", " ", "t", "h",
      "e", " ", "T", "e", "r", "m", "s", " ", "o", "f", " ", "S", "e", "r", "v", "i", "c", "e",
      ":", " ">>

\* category_names (lines 195-199, 329-331, 444-446)
category_names ==
    <<s_Clarity_and_Readability,
      <<"P", "r", "i", "v", "a", "c", "y", " ", "a", "n", "d", " ", "D", "a", "t", "a", " ",
        "S", "e", "c", "u", "r", "i", "t", "y">>,
      <<"D", "a", "t", "a", " ", "C", "o", "l", "l", "e", "c", "t", "i", "o", "n", " ", "a",
        "n", "d", " ", "U", "s", "a", "g", "e">>,
      <<"U", "s", "e", "r", " ", "R", "i", "g", "h", "t", "s", " ", "a", "n", "d", " ", "C",
        "o", "n", "t", "r", "o", "l">>,
      <<"L", "i", "a", "b", "i", "l", "i", "t", "y", " ", "a", "n", "d", " ", "D", "i", "s",
        "c", "l", "a", "i", "m", "e", "r", "s">>,
      <<"T", "e", "r", "m", "i", "n", "a", "t", "i", "o", "n", " ", "a", "n", "d", " ", "A",
        "c", "c", "o", "u", "n", "t", " ", "S", "u", "s", "p", "e", "n", "s", "i", "o", "n">>,
      s_Changes_to_Terms>>

\* ------------------------------------------------------------------------
\* Python built-ins the normalizers call: float(), str(), list(), in, []
\* ------------------------------------------------------------------------
\* what a call ends with: a returned value, or a raised exception (its type)
Return(v) == [exc |-> "", val |-> v]
Raise(e) == [exc |-> e, val |-> JNull]

Lower(c) ==
    CASE c = "I" -> "i" [] c = "N" -> "n" [] c = "F" -> "f" [] c = "T" -> "t"
      [] c = "Y" -> "y" [] c = "A" -> "a" [] OTHER -> c

\* float(s) for a str: surrounding whitespace, a sign, then inf / infinity /
\* nan in any case or a decimal literal (digits may be grouped by single
\* underscores); anything else is a ValueError.
\* t is the stripped text, u the text without underscores; the integer digits
\* are u[i0 .. i1-1], the fraction digits u[f0 .. f1-1], the exponent digits
\* u[e0 .. e1-1].
FloatOfStr(s) ==
    LET IsNotUnderscore(ch) == ch # "_"
        GroupedOk(t) == \A i \in 1..Len(t) : t[i] = "_" =>
                            /\ i > 1 /\ t[i - 1] \in Digits
                            /\ i < Len(t) /\ t[i + 1] \in Digits
        Literal(u, sign, i0, i1, f0, f1, e0, e1) ==
            LET word == [i \in 1..(Len(u) - i0 + 1) |-> Lower(u[i0 + i - 1])]
                nfrac == f1 - f0
                hasE == f1 <= Len(u) /\ u[f1] \in {"e", "E"}
                exp == DigitsValue(u, e0, e1, 0)
                expNeg == u[e0 - 1] = "-"
                mant == DigitsValue(u, i0, i1, 0) * Pow10(nfrac) + DigitsValue(u, f0, f1, 0)
            IN  IF word \in {<<"i", "n", "f">>, <<"i", "n", "f", "i", "n", "i", "t", "y">>}
                THEN Return(JInf(sign))
                ELSE IF word = <<"n", "a", "n">> THEN Return(JNaN)
                ELSE IF (i1 - i0) + nfrac = 0 THEN Raise("ValueError")
                ELSE IF ~hasE THEN
                    IF f1 = Len(u) + 1 THEN Return(JFloat(sign * mant, Pow10(nfrac)))
                    ELSE Raise("ValueError")
                ELSE IF e1 > e0 /\ e1 = Len(u) + 1
                THEN Return(JFloat(sign * mant * (IF expNeg THEN 1 ELSE Pow10(exp)),
                                   Pow10(nfrac) * (IF expNeg THEN Pow10(exp) ELSE 1)))
                ELSE Raise("ValueError")
        ExpDigits(u, sign, i0, i1, f0, f1, e0) ==
            Literal(u, sign, i0, i1, f0, f1, e0, SkipWhile(u, e0, Digits))
        ExpMark(u, sign, i0, i1, f0, f1) ==
            ExpDigits(u, sign, i0, i1, f0, f1,
                      IF /\ f1 <= Len(u) /\ u[f1] \in {"e", "E"}
                         /\ f1 + 1 <= Len(u) /\ u[f1 + 1] \in {"+", "-"}
                      THEN f1 + 2 ELSE f1 + 1)
        Frac(u, sign, i0, i1, f0) == ExpMark(u, sign, i0, i1, f0, SkipWhile(u, f0, Digits))
        Point(u, sign, i0, i1) ==
            Frac(u, sign, i0, i1, IF i1 <= Len(u) /\ u[i1] = "." THEN i1 + 1 ELSE i1)
        Whole(u, sign, i0) == Point(u, sign, i0, SkipWhile(u, i0, Digits))
        Signed(u, signed) ==
            Whole(u, IF signed /\ u[1] = "-" THEN -1 ELSE 1, IF signed THEN 2 ELSE 1)
        Ungrouped(u) == Signed(u, Len(u) > 0 /\ u[1] \in {"+", "-"})
        Stripped(t) ==
            IF ~GroupedOk(t) THEN Raise("ValueError")
            ELSE Ungrouped(SelectSeq(t, IsNotUnderscore))
    IN  Stripped(strip(s))

\* float(v)
float(v) ==
    CASE v.t = "num" -> Return(IF v.d = 0 THEN v ELSE JFloat(v.n, v.d))
      [] v.t = "bool" -> Return(JFloat(IF v.b THEN 1 ELSE 0, 1))
      [] v.t = "str" -> FloatOfStr(v.s)
      [] OTHER -> Raise("TypeError")

\* repr() of one character of a str inside quote q
ReprChar(c, q) ==
    CASE c = "\\" -> <<"\\", "\\">>
      [] c = q -> <<"\\", q>>
      [] c = "\n" -> <<"\\", "n">>
      [] c = "\r" -> <<"\\", "r">>
      [] c = "\t" -> <<"\\", "t">>
      [] c = "\f" -> <<"\\", "x", "0", "c">>
      [] c = "<VT>" -> <<"\\", "x", "0", "b">>
      [] c = "<FS>" -> <<"\\", "x", "1", "c">>
      [] c = "<NUL>" -> <<"\\", "x", "0", "0">>
      [] c = "<BS>" -> <<"\\", "x", "0", "8">>
      [] c = "<DEL>" -> <<"\\", "x", "7", "f">>
      [] OTHER -> <<c>>

RECURSIVE ReprText(_, _)
ReprText(s, q) == IF s = <<>> THEN <<>> ELSE ReprChar(Head(s), q) \o ReprText(Tail(s), q)

\* repr() of a str: single quotes, unless it holds a ' and no "
ReprStr(s) ==
    LET q == IF (\E i \in 1..Len(s) : s[i] = "'") /\ ~(\E i \in 1..Len(s) : s[i] = "\"")
             THEN "\"" ELSE "'"
    IN  <<q>> \o ReprText(s, q) \o <<q>>

RECURSIVE repr(_), ReprItems(_, _, _)
repr(v) ==
    CASE v.t = "None" -> <<"N", "o", "n", "e">>
      [] v.t = "bool" -> IF v.b THEN <<"T", "r", "u", "e">> ELSE <<"F", "a", "l", "s", "e">>
      [] v.t = "num" ->
            IF ~v.f THEN IntText(v.n)
            ELSE IF v.d # 0 THEN FloatRepr(v.n, v.d)
            ELSE IF v.n = 0 THEN <<"n", "a", "n">>
            ELSE (IF v.n < 0 THEN <<"-">> ELSE <<>>) \o <<"i", "n", "f">>
      [] v.t = "str" -> ReprStr(v.s)
      [] v.t = "list" -> <<"[">> \o ReprItems(v.items, 1, FALSE) \o <<"]">>
      [] v.t = "dict" -> <<"{">> \o ReprItems(v.items, 1, TRUE) \o <<"}">>

ReprItems(items, i, keyed) ==
    IF i > Len(items) THEN <<>>
    ELSE (IF i > 1 THEN <<",", " ">> ELSE <<>>)
         \o (IF keyed THEN ReprStr(items[i].k) \o <<":", " ">> ELSE <<>>)
         \o repr(items[i].v)
         \o ReprItems(items, i + 1, keyed)

\* str(v), as a str value
str(v) == IF v.t = "str" THEN v ELSE JStr(repr(v))

\* list(v): a list, the characters of a str, the keys of a dict; a TypeError
\* for anything that is not iterable
list(v) ==
    CASE v.t = "list" -> Return(v)
      [] v.t = "str" -> Return(JList([i \in 1..Len(v.s) |-> Elem(JStr(<<v.s[i]>>))]))
      [] v.t = "dict" -> Return(JList([i \in 1..Len(v.items) |-> Elem(JStr(v.items[i].k))]))
      [] OTHER -> Raise("TypeError")

\* `name in container`, for a str name: key of a dict, element of a list,
\* substring of a str; a TypeError for anything else
In(name, container) ==
    CASE container.t = "dict" -> Return(JBool(Has(container, name)))
      [] container.t = "list" ->
            Return(JBool(\E i \in 1..Len(container.items) :
                            /\ container.items[i].v.t = "str"
                            /\ container.items[i].v.s = name))
      [] container.t = "str" ->
            Return(JBool(\E i \in 1..(Len(container.s) + 1) : MatchAt(container.s, i, name)))
      [] OTHER -> Raise("TypeError")

\* container[name], for a str name: only a dict can be indexed by a str
Index(container, name) ==
    IF container.t = "dict" THEN Return(Get(container, name, JNull)) ELSE Raise("TypeError")

\* ------------------------------------------------------------------------
\* extract_structured_data (analysis.py 432-468): the regex field extractor
\* ------------------------------------------------------------------------
\* a regex search result: whether it matched, and group 1
Match(g) == [found |-> TRUE, group |-> g]
NoMatch == [found |-> FALSE, group |-> <<>>]

\* the text "key": of a pattern
KeyColon(key) == <<"\"">> \o key \o <<"\"", ":">>

\* re.search(r'"key":\s*"([^"]*)"', text) (lines 439, 453)
SearchQuoted(key, text) ==
    LET lit == KeyColon(key)
        Open(i) == SkipWhile(text, i + Len(lit), PyWhitespace)
        Close(i) == SkipUntil(text, Open(i) + 1, {"\""})
        hits == {i \in 1..Len(text) :
                    /\ MatchAt(text, i, lit)
                    /\ Open(i) <= Len(text) /\ text[Open(i)] = "\""
                    /\ Close(i) <= Len(text)}
    IN  IF hits = {} THEN NoMatch
        ELSE Match(SubSeq(text, Open(Least(hits)) + 1, Close(Least(hits)) - 1))

\* re.search(rf'"{category}":\s*{{([^}}]*)}}', text) (line 448): in the
\* f-string the doubled braces are single braces of the pattern
SearchBraced(key, text) ==
    LET lit == KeyColon(key)
        Open(i) == SkipWhile(text, i + Len(lit), PyWhitespace)
        Close(i) == SkipUntil(text, Open(i) + 1, {"}"})
        hits == {i \in 1..Len(text) :
                    /\ MatchAt(text, i, lit)
                    /\ Open(i) <= Len(text) /\ text[Open(i)] = "{"
                    /\ Close(i) <= Len(text)}
    IN  IF hits = {} THEN NoMatch
        ELSE Match(SubSeq(text, Open(Least(hits)) + 1, Close(Least(hits)) - 1))

\* re.search(r'"Overall Assessment":\s*{{([^}}]*)}}', text) (line 459): not an
\* f-string, so the pattern asks for two opening and two closing braces
SearchDoubleBraced(key, text) ==
    LET lit == KeyColon(key)
        Open(i) == SkipWhile(text, i + Len(lit), PyWhitespace)
        Close(i) == SkipUntil(text, Open(i) + 2, {"}"})
        hits == {i \in 1..Len(text) :
                    /\ MatchAt(text, i, lit)
                    /\ MatchAt(text, Open(i), <<"{", "{">>)
                    /\ MatchAt(text, Close(i), <<"}", "}">>)}
    IN  IF hits = {} THEN NoMatch
        ELSE Match(SubSeq(text, Open(Least(hits)) + 2, Close(Least(hits)) - 1))

\* re.search(rf'"{key}":\s*"?([^",}}]*)"?', text) (line 464)
SearchBare(key, text) ==
    LET lit == KeyColon(key)
        hits == {i \in 1..Len(text) : MatchAt(text, i, lit)}
        q == SkipWhile(text, Least(hits) + Len(lit), PyWhitespace)
        from == IF q <= Len(text) /\ text[q] = "\"" THEN q + 1 ELSE q
    IN  IF hits = {} THEN NoMatch
        ELSE Match(SubSeq(text, from, SkipUntil(text, from, {"\"", ",", "}"}) - 1))

\* 452-455: the sub-fields found in a category block, each a str
RECURSIVE ExtractCategoryKeys(_, _, _, _)
ExtractCategoryKeys(keys, i, category_content, category_data) ==
    IF i > Len(keys) THEN category_data
    ELSE LET key_match == SearchQuoted(keys[i], category_content)
         IN  ExtractCategoryKeys(keys, i + 1, category_content,
                 IF key_match.found
                 THEN Set(category_data, keys[i], JStr(key_match.group))
                 ELSE category_data)

\* 463-466: the fields found in the overall block, each a str
RECURSIVE ExtractOverallKeys(_, _, _, _)
ExtractOverallKeys(keys, i, overall_content, overall) ==
    IF i > Len(keys) THEN overall
    ELSE LET key_match == SearchBare(keys[i], overall_content)
         IN  ExtractOverallKeys(keys, i + 1, overall_content,
                 IF key_match.found
                 THEN Set(overall, keys[i], JStr(key_match.group))
                 ELSE overall)

\* 447-456: one top-level entry per category name found
RECURSIVE ExtractCategories(_, _, _)
ExtractCategories(i, text, data) ==
    IF i > Len(category_names) THEN data
    ELSE LET category_match == SearchBraced(category_names[i], text)
         IN  ExtractCategories(i + 1, text,
                 IF category_match.found
                 THEN Set(data, category_names[i],
                          ExtractCategoryKeys(<<s_a, s_b, s_c, s_d>>, 1,
                                              category_match.group, JDict(<<>>)))
                 ELSE data)

extract_structured_data(text) ==
    LET initial_assessment_match == SearchQuoted(s_Initial_Assessment, text)
        data1 == IF initial_assessment_match.found
                 THEN Set(JDict(<<>>), s_Initial_Assessment,
                          JStr(initial_assessment_match.group))
                 ELSE JDict(<<>>)
        data2 == ExtractCategories(1, text, data1)
        overall_assessment_match == SearchDoubleBraced(s_Overall_Assessment, text)
    IN  IF overall_assessment_match.found
        THEN Set(data2, s_Overall_Assessment,
                 ExtractOverallKeys(<<s_Final_Score, s_Letter_Grade, s_Summary, s_Green_Flags,
                                      s_Red_Flags>>, 1, overall_assessment_match.group,
                                    JDict(<<>>)))
        ELSE data2

\* ------------------------------------------------------------------------
\* parse_and_clean_json (analysis.py 278-358)
\* ------------------------------------------------------------------------
\* 282-286
safe_float(value) ==
    LET Caught(r) == IF r.exc \in {"ValueError", "TypeError"} THEN JFloat(0, 1) ELSE r.val
    IN  Caught(float(value))

\* 339-345, 350-356: the category record built from cat_data
CategoryRecord(name, cat_data) ==
    JDict(<<Item(s_name, JStr(name)),
            Item(s_user_friendly_aspect, str(Get(cat_data, s_a, JStr(<<>>)))),
            Item(s_concerning_aspect, str(Get(cat_data, s_b, JStr(<<>>)))),
            Item(s_score, safe_float(Get(cat_data, s_c, JInt(0)))),
            Item(s_justification, str(Get(cat_data, s_d, JStr(<<>>))))>>)

\* 335-345: categories is a list; ci is the element, ni the name under test
RECURSIVE CategoriesFromList(_, _, _, _)
CategoriesFromList(categories, ci, ni, acc) ==
    IF ci > Len(categories.items) THEN Return(JList(acc))
    ELSE IF ni > Len(category_names) THEN CategoriesFromList(categories, ci + 1, 1, acc)
    ELSE LET category == categories.items[ci].v
             name == category_names[ni]
             found == In(name, category)
             cat_data == Index(category, name)
         IN  IF found.exc # "" THEN found
             ELSE IF ~found.val.b THEN CategoriesFromList(categories, ci, ni + 1, acc)
             ELSE IF cat_data.exc # "" THEN cat_data
             ELSE IF ~isinstance(cat_data.val, "dict") THEN Raise("AttributeError")
             ELSE CategoriesFromList(categories, ci, ni + 1,
                                     Append(acc, Elem(CategoryRecord(name, cat_data.val))))

\* 346-356: categories is a dict
RECURSIVE CategoriesFromDict(_, _, _)
CategoriesFromDict(categories, ni, acc) ==
    IF ni > Len(category_names) THEN Return(JList(acc))
    ELSE LET name == category_names[ni]
             cat_data == Get(categories, name, JNull)
         IN  IF ~Has(categories, name) THEN CategoriesFromDict(categories, ni + 1, acc)
             ELSE IF ~isinstance(cat_data, "dict") THEN Raise("AttributeError")
             ELSE CategoriesFromDict(categories, ni + 1,
                                     Append(acc, Elem(CategoryRecord(name, cat_data))))

\* 308-358: the restructuring of whatever was parsed or extracted
Restructure(parsed_json) ==
    LET Built(overall_assessment, isOverall, green, red, cats) ==
            IF isOverall /\ green.exc # "" THEN green
            ELSE IF isOverall /\ red.exc # "" THEN red
            ELSE IF cats.exc # "" THEN cats
            ELSE Return(JDict(<<
                Item(s_initial_assessment,
                     str(Get(parsed_json, s_Initial_Assessment, JStr(<<>>)))),
                Item(s_categories, cats.val),
                Item(s_final_score,
                     IF isOverall
                     THEN safe_float(Get(overall_assessment, s_Final_Score, JInt(0)))
                     ELSE JInt(0)),
                Item(s_letter_grade,
                     IF isOverall THEN str(Get(overall_assessment, s_Letter_Grade, JStr(<<>>)))
                     ELSE JStr(<<>>)),
                Item(s_summary,
                     IF isOverall THEN str(Get(overall_assessment, s_Summary, JStr(<<>>)))
                     ELSE JStr(<<>>)),
                Item(s_green_flags, IF isOverall THEN green.val ELSE JList(<<>>)),
                Item(s_red_flags, IF isOverall THEN red.val ELSE JList(<<>>))>>))
        Converted(categories) ==
            IF isinstance(categories, "list") THEN CategoriesFromList(categories, 1, 1, <<>>)
            ELSE IF isinstance(categories, "dict") THEN CategoriesFromDict(categories, 1, <<>>)
            ELSE Return(JList(<<>>))
        Overall(overall_assessment) ==
            Built(overall_assessment, isinstance(overall_assessment, "dict"),
                  list(Get(overall_assessment, s_Green_Flags, JList(<<>>))),
                  list(Get(overall_assessment, s_Red_Flags, JList(<<>>))),
                  Converted(Get(parsed_json, s_Categories, JList(<<>>))))
    IN  IF ~isinstance(parsed_json, "dict") THEN Raise("AttributeError")
        ELSE Overall(Get(parsed_json, s_Overall_Assessment, JDict(<<>>)))

\* response_text[:1000]
Excerpt == 1000

\* the scoring guide of the prompt: scores run from 0 (line 112) to 10 (116)
ScoreMin == 0
ScoreMax == 10

\* 303-306: the failure record
ParseFailure(response_text) ==
    LET m_parse_failure ==
            <<"F", "a", "i", "l", "e", "d", " ", "t", "o", " ", "p", "a", "r", "s", "e", " ",
              "t", "h", "e", " ", "A", "P", "I", " ", "r", "e", "s", "p", "o", "n", "s", "e",
              " ", "a", "s", " ", "J", "S", "O", "N", ",", " ", "e", "v", "e", "n", " ", "a",
              "f", "t", "e", "r", " ", "c", "l", "e", "a", "n", "i", "n", "g", ".">>
    IN  JDict(<<Item(s_error, JStr(m_parse_failure)),
                Item(s_raw_response,
                     JStr(SubSeq(response_text, 1,
                                 IF Len(response_text) < Excerpt THEN Len(response_text)
                                 ELSE Excerpt)))>>)

\* ------------------------------------------------------------------------
\* post_process_analysis (analysis.py 181-234)
\* ------------------------------------------------------------------------
\* x < y for numbers (false whenever either is nan)
NumLess(x, y) ==
    IF (x.d = 0 /\ x.n = 0) \/ (y.d = 0 /\ y.n = 0) THEN FALSE
    ELSE IF x.d = 0 /\ y.d = 0 THEN x.n < y.n
    ELSE IF x.d = 0 THEN x.n < 0
    ELSE IF y.d = 0 THEN y.n > 0
    ELSE x.n * y.d < y.n * x.d

\* min(a, b) and max(a, b): the first argument unless the second is beyond it
min(a, b) == IF NumLess(b, a) THEN b ELSE a
max(a, b) == IF NumLess(a, b) THEN b ELSE a

\* 200-209: one record per declared name whose entry is a dict, the absent
\* entry defaulting to the empty dict; float() of the score may raise
RECURSIVE PostCategories(_, _, _)
PostCategories(analysis, ni, categories) ==
    LET Scored(name, category, score) ==
            IF score.exc # "" THEN score
            ELSE PostCategories(analysis, ni + 1,
                   Append(categories, Elem(JDict(<<
                       Item(s_name, JStr(name)),
                       Item(s_user_friendly_aspect,
                            Get(category, s_user_friendly_aspect, JStr(<<>>))),
                       Item(s_concerning_aspect,
                            Get(category, s_concerning_aspect, JStr(<<>>))),
                       Item(s_score, score.val),
                       Item(s_justification, Get(category, s_justification, JStr(<<>>)))>>))))
        Category(name, category) ==
            IF ~isinstance(category, "dict") THEN PostCategories(analysis, ni + 1, categories)
            ELSE Scored(name, category, float(Get(category, s_score, JInt(0))))
    IN  IF ni > Len(category_names) THEN Return(JList(categories))
        ELSE Category(category_names[ni], Get(analysis, category_names[ni], JDict(<<>>)))

\* 181-234.  The dict is updated in place: every key of the input stays.
post_process_analysis(analysis) ==
    LET \* 228-234: the final formatting of the five overall fields
        Formatted(a, final_score, letter_grade, summary, green_flags, red_flags) ==
            IF final_score.exc # "" THEN final_score
            ELSE IF green_flags.exc # "" THEN green_flags
            ELSE IF red_flags.exc # "" THEN red_flags
            ELSE Return(Set(Set(Set(Set(Set(a,
                     s_final_score, max(JInt(0), min(JInt(10), float(final_score.val).val))),
                     s_letter_grade, str(letter_grade)),
                     s_summary, str(summary)),
                     s_green_flags, green_flags.val),
                     s_red_flags, red_flags.val))
        \* 212-226
        Overall(a, overall_assessment) ==
            IF isinstance(overall_assessment, "dict")
            THEN Formatted(a, float(Get(overall_assessment, s_final_score, JInt(0))),
                           Get(overall_assessment, s_letter_grade, JStr(<<>>)),
                           Get(overall_assessment, s_summary, JStr(<<>>)),
                           list(Get(overall_assessment, s_green_flags, JList(<<>>))),
                           list(Get(overall_assessment, s_red_flags, JList(<<>>))))
            ELSE Formatted(a, Return(JInt(0)), JStr(<<>>), JStr(<<>>),
                           Return(JList(<<>>)), Return(JList(<<>>)))
        Assess(a) == Overall(a, Get(a, s_Overall_Assessment, JDict(<<>>)))
        \* 193-210
        Categorized(a, categories) ==
            IF categories.exc # "" THEN categories
            ELSE Assess(Set(a, s_categories, categories.val))
        Categorize(a) == Categorized(a, PostCategories(a, 1, <<>>))
        \* 186-191
        Initial(initial_assessment) ==
            Categorize(Set(analysis, s_initial_assessment,
                           IF isinstance(initial_assessment, "dict")
                           THEN Get(initial_assessment, s_notable_aspects, JList(<<>>))
                           ELSE JList(<<>>)))
    IN  IF ~isinstance(analysis, "dict") THEN Raise("ValueError")
        ELSE Initial(Get(analysis, s_Initial_Assessment, JDict(<<>>)))

\* ------------------------------------------------------------------------
\* analyze_tos (analysis.py 127-179): the records it returns
\* ------------------------------------------------------------------------
\* {"error": message}
ErrorRecord(message) == JDict(<<Item(s_error, JStr(message))>>)

\* str(e) of a raised exception: the interpreter's message text, kept as one
\* symbolic character that names the exception type
ExceptionText(exc) == <<"<" \o exc \o ">">>

\* 166-169: {"error": ..., "raw_response": response.text[:1000]}
PostProcessingError(exc, text) ==
    LET m_post_processing ==
            <<"E", "r", "r", "o", "r", " ", "i", "n", " ", "p", "o", "s", "t", "-", "p", "r",
              "o", "c", "e", "s", "s", "i", "n", "g", ":", " ">>
    IN  JDict(<<Item(s_error, JStr(m_post_processing \o ExceptionText(exc))),
                Item(s_raw_response,
                     JStr(SubSeq(text, 1,
                                 IF Len(text) < Excerpt THEN Len(text) ELSE Excerpt)))>>)

\* ------------------------------------------------------------------------
\* Inputs
\* ------------------------------------------------------------------------
\* longest text enumerated character by character
MaxLen == 3

\* largest integer score drawn as an input
MaxScoreInput == 11

\* the characters of the enumerated texts
Alphabet == {"{", "}", "[", "]", ",", ":", "\"", "a", "1"}

ShortTexts == UNION {[1..n -> Alphabet] : n \in 0..MaxLen}

\* every prefix of a text, the text included
Prefixes(t) == {SubSeq(t, 1, n) : n \in 0..Len(t)}

\* the specification's example of a reply cut off inside an array
TruncatedSample ==
    <<"{", "\"", "c", "a", "t", "e", "g", "o", "r", "i", "e", "s", "\"", ":", "[", "{", "\"", "n",
      "a", "m", "e", "\"", ":", "\"", "A", "\"", ",", "\"", "s", "c", "o", "r", "e", "\"", ":",
      "5", "}", ",", "{", "\"", "n", "a", "m", "e", "\"", ":", "\"", "B", "\"">>

\* the specification's example of a bare field marker
SummarySample == <<"\"", "s", "u", "m", "m", "a", "r", "y", "\"", ":", " ", "\"", "X", "\"">>

\* the same field marker inside prose, which no repair turns into JSON
ProseSummarySample ==
    <<"T", "h", "e", " ", "\"", "s", "u", "m", "m", "a", "r", "y", "\"", ":", " ", "\"", "X", "\""
      , " ", "i", "s", " ", "a", "l", "l">>

\* a reply in the key layout parse_and_clean_json reads, to be cut anywhere
FullSample ==
    <<"{", "\"", "I", "n", "i", "t", "i", "a", "l", " ", "A", "s", "s", "e", "s", "s", "m", "e",
      "n", "t", "\"", ":", " ", "\"", "o", "k", "\"", ",", " ", "\"", "C", "a", "t", "e", "g", "o"
      , "r", "i", "e", "s", "\"", ":", " ", "[", "{", "\"", "C", "l", "a", "r", "i", "t", "y", " "
      , "a", "n", "d", " ", "R", "e", "a", "d", "a", "b", "i", "l", "i", "t", "y", "\"", ":", " ",
      "{", "\"", "a", "\"", ":", " ", "\"", "u", "\"", ",", " ", "\"", "c", "\"", ":", " ", "5",
      "}", "}", ",", " ", "{", "\"", "C", "h", "a", "n", "g", "e", "s", " ", "t", "o", " ", "T",
      "e", "r", "m", "s", "\"", ":", " ", "{", "\"", "c", "\"", ":", " ", "\"", "7", "\"", "}",
      "}", "]", ",", " ", "\"", "O", "v", "e", "r", "a", "l", "l", " ", "A", "s", "s", "e", "s",
      "s", "m", "e", "n", "t", "\"", ":", " ", "{", "\"", "F", "i", "n", "a", "l", " ", "S", "c",
      "o", "r", "e", "\"", ":", " ", "6", ".", "5", ",", " ", "\"", "S", "u", "m", "m", "a", "r",
      "y", "\"", ":", " ", "\"", "X", "\"", ",", " ", "\"", "G", "r", "e", "e", "n", " ", "F", "l"
      , "a", "g", "s", "\"", ":", " ", "[", "\"", "g", "\"", "]", "}", "}">>

\* texts only the field extractor can read
ExtractorSamples ==
    {<<"\"", "I", "n", "i", "t", "i", "a", "l", " ", "A", "s", "s", "e", "s", "s", "m", "e", "n",
       "t", "\"", ":", " ", "\"", "x", "\"", " ", "j", "u", "n", "k">>,
     <<"\"", "O", "v", "e", "r", "a", "l", "l", " ", "A", "s", "s", "e", "s", "s", "m", "e", "n",
       "t", "\"", ":", " ", "{", "{", "\"", "S", "u", "m", "m", "a", "r", "y", "\"", ":", " ",
       "\"", "X", "\"", ",", " ", "\"", "F", "i", "n", "a", "l", " ", "S", "c", "o", "r", "e",
       "\"", ":", " ", "1", "2", "}", "}", " ", "j", "u", "n", "k">>,
     <<"\"", "O", "v", "e", "r", "a", "l", "l", " ", "A", "s", "s", "e", "s", "s", "m", "e", "n",
       "t", "\"", ":", " ", "{", "\"", "S", "u", "m", "m", "a", "r", "y", "\"", ":", " ", "\"",
       "X", "\"", "}", " ", "j", "u", "n", "k">>,
     <<"\"", "C", "h", "a", "n", "g", "e", "s", " ", "t", "o", " ", "T", "e", "r", "m", "s", "\"",
       ":", " ", "{", "\"", "c", "\"", ":", " ", "\"", "1", "1", "\"", "}", " ", "j", "u", "n",
       "k">>}

\* texts the repair filters act on: quotes, bare keys, trailing commas, a
\* nested document, control characters, truncation inside nested objects
RepairSamples ==
    {<<"{", "'", "I", "n", "i", "t", "i", "a", "l", " ", "A", "s", "s", "e", "s", "s", "m", "e",
       "n", "t", "'", ":", " ", "'", "o", "k", "'", ",", "}">>,
     <<"{", "C", "a", "t", "e", "g", "o", "r", "i", "e", "s", ":", " ", "[", "]", ",", " ", "\"",
       "x", "\"", ":", " ", "\"", "{", "\"", "a", "\"", ":", " ", "1", ".", "5", "0", "}", "\"",
       "}">>,
     <<"a", ":", "{", "a", ":", "1">>,
     <<"{", "\"", "a", "\"", ":", "\n", "1", ",", ",", "}">>,
     <<"{", "\"", "C", "a", "t", "e", "g", "o", "r", "i", "e", "s", "\"", ":", "{", "\"", "C", "h"
       , "a", "n", "g", "e", "s", " ", "t", "o", " ", "T", "e", "r", "m", "s", "\"", ":", "{",
       "\"", "c", "\"", ":", "1", "1", "}">>,
     <<"[", "1", ".", "5", "e", "1", ",", " ", "n", "u", "l", "l", ",", " ", "t", "r", "u", "e",
       ",", " ", "\"", "a", "\\", "u", "0", "0", "4", "1", "\\", "n", "\"", "]">>}

\* values a model may put where a score is expected
ScoreValues ==
    {JInt(k) : k \in -1..MaxScoreInput}
    \cup {JFloat(65, 10), JStr(<<"7">>), JStr(<<"a", "b", "c">>), JNull, JBool(TRUE)}

\* values a model may put where a list of flags is expected
FlagValues ==
    {JList(<<>>), JList(<<Elem(JStr(<<"g">>))>>), JStr(<<"g">>), JStr(<<"g", "h">>), JStr(<<>>),
     JInt(0), JNull}

\* the dicts with at most one entry per optional key: entries[i] is the set
\* of values key keys[i] may take, absent included when optional[i]
RECURSIVE Dicts(_, _, _, _)
Dicts(keys, entries, optional, i) ==
    IF i > Len(keys) THEN {JDict(<<>>)}
    ELSE LET rest == Dicts(keys, entries, optional, i + 1)
         IN  {JDict(<<Item(keys[i], v)>> \o r.items) : v \in entries[i], r \in rest}
             \cup (IF optional[i] THEN rest ELSE {})

\* mappings in the key layout post_process_analysis reads (187-219)
AnalysisMappings ==
    Dicts(<<s_error, s_Changes_to_Terms, s_Clarity_and_Readability, s_Overall_Assessment>>,
          <<{JStr(<<"x">>)},
            {JDict(<<Item(s_score, JInt(3))>>)},
            {JDict(<<Item(s_score, v)>>) : v \in ScoreValues} \cup {JDict(<<>>), JInt(5)},
            {JDict(<<Item(s_final_score, v)>>) : v \in ScoreValues}
              \cup {JDict(<<Item(s_green_flags, g)>>) : g \in FlagValues}
              \cup {JDict(<<Item(s_red_flags, JStr(<<"r">>)), Item(s_summary, JInt(1))>>),
                    JInt(5)}>>,
          <<TRUE, TRUE, TRUE, TRUE>>, 1)

\* the prompt's own layout (83-100)
PromptMappings ==
    Dicts(<<s_initial_assessment, s_categories, s_final_score, s_letter_grade, s_summary,
            s_green_flags, s_red_flags>>,
          <<{JStr(<<"i">>)},
            {JList(<<Elem(JDict(<<Item(s_name, JStr(s_Changes_to_Terms)),
                                  Item(s_score, JInt(4))>>))>>)},
            {JInt(7), JFloat(65, 10), JInt(12)},
            {JStr(<<"B">>)},
            {JStr(<<"s">>)},
            {JList(<<Elem(JStr(<<"g">>))>>)},
            {JList(<<>>)}>>,
          <<FALSE, FALSE, FALSE, FALSE, FALSE, FALSE, FALSE>>, 1)

\* mappings in the key layout parse_and_clean_json reads (310-356)
RecoveryMappings ==
    Dicts(<<s_Initial_Assessment, s_Categories, s_Overall_Assessment>>,
          <<{JStr(<<"o", "k">>)},
            {JList(<<Elem(JDict(<<Item(s_Clarity_and_Readability,
                                       JDict(<<Item(s_c, v)>>))>>))>>) : v \in ScoreValues}
              \cup {JDict(<<Item(s_Changes_to_Terms, JDict(<<Item(s_c, v)>>)),
                            Item(s_Clarity_and_Readability, JDict(<<>>))>>) : v \in ScoreValues}
              \cup {JList(<<>>), JList(<<Elem(JInt(5))>>), JStr(s_Changes_to_Terms),
                    JList(<<Elem(JDict(<<Item(s_Changes_to_Terms, JInt(5))>>))>>),
                    JList(<<Elem(JDict(<<Item(s_Changes_to_Terms, JDict(<<>>))>>)),
                            Elem(JDict(<<Item(s_Clarity_and_Readability, JDict(<<>>))>>))>>)},
            {JDict(<<Item(s_Final_Score, v)>>) : v \in {JInt(-1), JInt(MaxScoreInput),
                                                        JStr(<<"7">>)}}
              \cup {JDict(<<Item(s_Green_Flags, g)>>) : g \in FlagValues}
              \cup {JDict(<<Item(s_Summary, JStr(<<"X">>)), Item(s_Red_Flags, JStr(<<"r">>))>>),
                    JInt(5)}>>,
          <<TRUE, TRUE, TRUE>>, 1)

\* the texts given to parse_and_clean_json and to clean_json_response
Texts ==
    ShortTexts \cup Prefixes(TruncatedSample) \cup Prefixes(FullSample)
    \cup {SummarySample, ProseSummarySample} \cup ExtractorSamples \cup RepairSamples
    \cup {json_dumps(m) : m \in RecoveryMappings}

\* the replies the model gives analyze_tos
Replies ==
    {t \in ShortTexts : Len(t) <= 2} \cup {TruncatedSample, FullSample}
    \cup {json_dumps(m) : m \in {a \in AnalysisMappings : ~Has(a, s_Changes_to_Terms)}}
    \cup {json_dumps(m) : m \in PromptMappings}

\* what analyze_tos is called with
TosTexts == {<<>>, <<"t", "o", "s">>}
CompanyNames == {<<"A", "c", "m", "e">>}

\* ------------------------------------------------------------------------
\* State
\* ------------------------------------------------------------------------
VARIABLES
    op,             \* the function under execution
    pc,             \* its position
    response_text,  \* the text it was given (the model's reply, for analyze_tos)
    cleaned_text,   \* clean_json_response(response_text), once computed
    recleaned_text, \* clean_json_response(cleaned_text), once computed
    parsed_json,    \* what strict parsing or extraction produced
    analysis,       \* the mapping handed to post_process_analysis
    tos_text,       \* analyze_tos's document
    company_name,   \* analyze_tos's company name
    api_key,        \* whether GEMINI_API_KEY is set
    calls,          \* the tiers invoked so far, in order
    result,         \* what the function returned or raised, once pc = "done"
    request,        \* the POST /analyze under way: its user, its body, the recent hits
    status,         \* the HTTP status it was answered with, 0 before the answer
    rows            \* the Analysis table

vars == <<op, pc, response_text, cleaned_text, recleaned_text, parsed_json, analysis,
          tos_text, company_name, api_key, calls, result, request, status, rows>>

\* the state before anything has run
Idle ==
    /\ pc = "start"
    /\ cleaned_text = <<>>
    /\ recleaned_text = <<>>
    /\ parsed_json = JNull
    /\ calls = <<>>
    /\ result = Return(JNull)
    /\ status = 0
    /\ rows = <<>>

InitRecover ==
    /\ op = "parse_and_clean_json"
    /\ response_text \in Texts
    /\ analysis = JNull /\ tos_text = <<>> /\ company_name = <<>> /\ api_key = FALSE
    /\ request = [user |-> "", recent |-> 0, json |-> JNull]
    /\ Idle

InitRepair ==
    /\ op = "clean_json_response"
    /\ response_text \in Texts
    /\ analysis = JNull /\ tos_text = <<>> /\ company_name = <<>> /\ api_key = FALSE
    /\ request = [user |-> "", recent |-> 0, json |-> JNull]
    /\ Idle

InitNormalize ==
    /\ op = "post_process_analysis"
    /\ analysis \in AnalysisMappings \cup PromptMappings
    /\ response_text = <<>> /\ tos_text = <<>> /\ company_name = <<>> /\ api_key = FALSE
    /\ request = [user |-> "", recent |-> 0, json |-> JNull]
    /\ Idle

InitAnalyze ==
    /\ op = "analyze_tos"
    /\ tos_text \in TosTexts
    /\ company_name \in CompanyNames
    /\ api_key \in BOOLEAN
    /\ response_text = <<>> /\ analysis = JNull
    /\ request = [user |-> "", recent |-> 0, json |-> JNull]
    /\ Idle


\* ------------------------------------------------------------------------
\* parse_and_clean_json, tier by tier (analysis.py 288-358)
\* ------------------------------------------------------------------------
\* ParseRaw without the try/except split: the text goes on to the repair
\* filters whether or not it parsed
ParseRawThenClean ==
    /\ op = "parse_and_clean_json" /\ pc = "start"
    /\ calls' = Append(calls, "json.loads")
    /\ parsed_json' = json_loads(response_text).val
    /\ pc' = "clean"
    /\ UNCHANGED <<op, response_text, cleaned_text, recleaned_text, analysis, tos_text,
                   company_name, api_key, result, request, status, rows>>

\* 288-290: strict parsing of the raw text
ParseRaw ==
    /\ op = "parse_and_clean_json" /\ pc = "start"
    /\ calls' = Append(calls, "json.loads")
    /\ IF json_loads(response_text).ok
       THEN parsed_json' = json_loads(response_text).val /\ pc' = "restructure"
       ELSE parsed_json' = parsed_json /\ pc' = "clean"
    /\ UNCHANGED <<op, response_text, cleaned_text, recleaned_text, analysis, tos_text,
                   company_name, api_key, result, request, status, rows>>

\* 291-293: the repair filters, after the raw text failed to parse
Clean ==
    /\ op = "parse_and_clean_json" /\ pc = "clean"
    /\ calls' = Append(calls, "clean_json_response")
    /\ cleaned_text' = clean_json_response(response_text)
    /\ pc' = "parse_cleaned"
    /\ UNCHANGED <<op, response_text, recleaned_text, parsed_json, analysis, tos_text,
                   company_name, api_key, result, request, status, rows>>

\* 294-296: strict parsing of the repaired text
ParseCleaned ==
    /\ op = "parse_and_clean_json" /\ pc = "parse_cleaned"
    /\ calls' = Append(calls, "json.loads")
    /\ IF json_loads(cleaned_text).ok
       THEN parsed_json' = json_loads(cleaned_text).val /\ pc' = "restructure"
       ELSE parsed_json' = parsed_json /\ pc' = "extract"
    /\ UNCHANGED <<op, response_text, cleaned_text, recleaned_text, analysis, tos_text,
                   company_name, api_key, result, request, status, rows>>

\* 297-306: field extraction; an empty extraction is the failure record
Extract ==
    /\ op = "parse_and_clean_json" /\ pc = "extract"
    /\ calls' = Append(calls, "extract_structured_data")
    /\ parsed_json' = extract_structured_data(cleaned_text)
    /\ IF ~Truthy(extract_structured_data(cleaned_text))
       THEN result' = Return(ParseFailure(response_text)) /\ pc' = "done"
       ELSE result' = result /\ pc' = "restructure"
    /\ UNCHANGED <<op, response_text, cleaned_text, recleaned_text, analysis, tos_text,
                   company_name, api_key, request, status, rows>>

\* 308-358: the restructured record is returned, or an exception escapes
RestructureParsed ==
    /\ op = "parse_and_clean_json" /\ pc = "restructure"
    /\ result' = Restructure(parsed_json)
    /\ pc' = "done"
    /\ UNCHANGED <<op, response_text, cleaned_text, recleaned_text, parsed_json, analysis,
                   tos_text, company_name, api_key, calls, request, status, rows>>

\* ------------------------------------------------------------------------
\* clean_json_response applied, then applied to its own output
\* ------------------------------------------------------------------------
Repair ==
    /\ op = "clean_json_response" /\ pc = "start"
    /\ calls' = Append(calls, "clean_json_response")
    /\ cleaned_text' = clean_json_response(response_text)
    /\ pc' = "cleaned"
    /\ UNCHANGED <<op, response_text, recleaned_text, parsed_json, analysis, tos_text,
                   company_name, api_key, result, request, status, rows>>

RepairAgain ==
    /\ op = "clean_json_response" /\ pc = "cleaned"
    /\ calls' = Append(calls, "clean_json_response")
    /\ recleaned_text' = clean_json_response(cleaned_text)
    /\ pc' = "done"
    /\ UNCHANGED <<op, response_text, cleaned_text, parsed_json, analysis, tos_text,
                   company_name, api_key, result, request, status, rows>>

\* ------------------------------------------------------------------------
\* post_process_analysis called on a mapping
\* ------------------------------------------------------------------------
Normalize ==
    /\ op = "post_process_analysis" /\ pc = "start"
    /\ calls' = Append(calls, "post_process_analysis")
    /\ result' = post_process_analysis(analysis)
    /\ pc' = "done"
    /\ UNCHANGED <<op, response_text, cleaned_text, recleaned_text, parsed_json, analysis,
                   tos_text, company_name, api_key, request, status, rows>>

\* ------------------------------------------------------------------------
\* analyze_tos (analysis.py 127-179)
\* ------------------------------------------------------------------------
\* 128-132: no document, or no API key
CheckArguments ==
    /\ op = "analyze_tos" /\ pc = "start"
    /\ LET m_no_document ==
               <<"U", "n", "a", "b", "l", "e", " ", "t", "o", " ", "f", "e", "t", "c", "h", " ",
                 "t", "h", "e", " ", "T", "e", "r", "m", "s", " ", "o", "f", " ", "S", "e", "r",
                 "v", "i", "c", "e", " ", "d", "o", "c", "u", "m", "e", "n", "t", ".">>
           m_no_api_key ==
               <<"G", "E", "M", "I", "N", "I", "_", "A", "P", "I", "_", "K", "E", "Y", " ", "e",
                 "n", "v", "i", "r", "o", "n", "m", "e", "n", "t", " ", "v", "a", "r", "i", "a",
                 "b", "l", "e", " ", "i", "s", " ", "n", "o", "t", " ", "s", "e", "t", ".">>
       IN  IF tos_text = <<>>
           THEN result' = Return(ErrorRecord(m_no_document)) /\ pc' = "done"
           ELSE IF ~api_key
           THEN result' = Return(ErrorRecord(m_no_api_key)) /\ pc' = "done"
           ELSE result' = result /\ pc' = "generate"
    /\ UNCHANGED <<op, response_text, cleaned_text, recleaned_text, parsed_json, analysis,
                   tos_text, company_name, api_key, calls, request, status, rows>>

\* 135-151: the model replies with some text
ModelReplies ==
    /\ op = "analyze_tos" /\ pc = "generate"
    /\ response_text' \in Replies
    /\ pc' = "loads"
    /\ UNCHANGED <<op, cleaned_text, recleaned_text, parsed_json, analysis, tos_text,
                   company_name, api_key, calls, result, request, status, rows>>

\* 171-179: the model call raises instead
ModelFails ==
    /\ op = "analyze_tos" /\ pc = "generate"
    /\ LET m_blocked ==
               <<"T", "h", "e", " ", "a", "n", "a", "l", "y", "s", "i", "s", " ", "r", "e", "q",
                 "u", "e", "s", "t", " ", "w", "a", "s", " ", "b", "l", "o", "c", "k", "e", "d",
                 " ", "d", "u", "e", " ", "t", "o", " ", "c", "o", "n", "t", "e", "n", "t", " ",
                 "r", "e", "s", "t", "r", "i", "c", "t", "i", "o", "n", "s", ".">>
           m_timeout ==
               <<"T", "h", "e", " ", "a", "n", "a", "l", "y", "s", "i", "s", " ", "r", "e", "q",
                 "u", "e", "s", "t", " ", "t", "i", "m", "e", "d", " ", "o", "u", "t", ".", " ",
                 "P", "l", "e", "a", "s", "e", " ", "t", "r", "y", " ", "a", "g", "a", "i", "n",
                 " ", "l", "a", "t", "e", "r", ".">>
       IN  \E exc \in {"BlockedPromptException", "Timeout", "Exception"} :
              result' = Return(ErrorRecord(
                            CASE exc = "BlockedPromptException" -> m_blocked
                              [] exc = "Timeout" -> m_timeout
                              [] OTHER -> m_exception \o ExceptionText(exc)))
    /\ pc' = "done"
    /\ UNCHANGED <<op, response_text, cleaned_text, recleaned_text, parsed_json, analysis,
                   tos_text, company_name, api_key, calls, request, status, rows>>

\* 153-157: strict parsing of the reply; a reply that does not parse is
\* answered with an error record at once
LoadReply ==
    /\ op = "analyze_tos" /\ pc = "loads"
    /\ calls' = Append(calls, "json.loads")
    /\ LET m_json_error ==
               <<"U", "n", "a", "b", "l", "e", " ", "t", "o", " ", "p", "a", "r", "s", "e", " ",
                 "t", "h", "e", " ", "J", "S", "O", "N", " ", "r", "e", "s", "p", "o", "n", "s",
                 "e", " ", "f", "r", "o", "m", " ", "G", "e", "m", "i", "n", "i", " ", "A", "P",
                 "I">>
       IN  IF json_loads(response_text).ok
           THEN /\ parsed_json' = json_loads(response_text).val
                /\ result' = result
                /\ pc' = "post_process"
           ELSE /\ parsed_json' = parsed_json
                /\ result' = Return(ErrorRecord(m_json_error))
                /\ pc' = "done"
    /\ UNCHANGED <<op, response_text, cleaned_text, recleaned_text, analysis, tos_text,
                   company_name, api_key, request, status, rows>>

\* 159-169, 177-179: post-processing; a ValueError is answered with the
\* post-processing error record, any other exception with the general one
PostProcessReply ==
    /\ op = "analyze_tos" /\ pc = "post_process"
    /\ calls' = Append(calls, "post_process_analysis")
    /\ LET cleaned_analysis == post_process_analysis(parsed_json)
       IN  result' =
             IF cleaned_analysis.exc = ""
             THEN Return(Set(cleaned_analysis.val, s_company_name, JStr(company_name)))
             ELSE IF cleaned_analysis.exc = "ValueError"
             THEN Return(PostProcessingError(cleaned_analysis.exc, response_text))
             ELSE Return(ErrorRecord(m_exception \o ExceptionText(cleaned_analysis.exc)))
    /\ pc' = "done"
    /\ UNCHANGED <<op, response_text, cleaned_text, recleaned_text, parsed_json, analysis,
                   tos_text, company_name, api_key, request, status, rows>>

\* ------------------------------------------------------------------------
\* POST /analyze (app.py 106-183)
\* ------------------------------------------------------------------------
\* 'url' (app.py line 114)
s_url == <<"u", "r", "l">>

\* @limiter.limit("5 per minute")
RateLimit == 5

\* the JSON bodies a client may post
Bodies ==
    {JNull, JList(<<>>), JDict(<<>>), JDict(<<Item(s_error, JStr(<<"x">>))>>)}
    \cup {JDict(<<Item(s_url, u)>>) :
            u \in {JNull, JInt(5), JStr(<<>>), JStr(<<"f", "t", "p">>),
                   JStr(<<"h", "t", "t", "p", ":", "/", "/", "a", ".", "i", "o">>),
                   JStr(<<"h", "t", "t", "p", "s", ":", "/", "/", "a", ".", "i", "o">>)}}

\* the requests: by an anonymous or a logged-in client, with so many requests
\* from the same address within the last minute
Requests == [user : {"", "alice"}, recent : {0, RateLimit - 1, RateLimit}, json : Bodies]

InitRoute ==
    /\ op = "analyze"
    /\ request \in Requests
    /\ api_key \in BOOLEAN
    /\ response_text = <<>> /\ analysis = JNull /\ tos_text = <<>> /\ company_name = <<>>
    /\ Idle

\* 107: the limiter answers 429 once five requests were counted this minute
LimitRequest ==
    /\ op = "analyze" /\ pc = "start"
    /\ IF request.recent >= RateLimit
       THEN status' = 429 /\ pc' = "done"
       ELSE status' = status /\ pc' = "login"
    /\ UNCHANGED <<op, response_text, cleaned_text, recleaned_text, parsed_json, analysis,
                   tos_text, company_name, api_key, calls, result, request, rows>>

\* 108, 20-21: @login_required redirects an anonymous client to the login view
login_required ==
    /\ op = "analyze" /\ pc = "login"
    /\ IF request.user = ""
       THEN status' = 302 /\ pc' = "done"
       ELSE status' = status /\ pc' = "url"
    /\ UNCHANGED <<op, response_text, cleaned_text, recleaned_text, parsed_json, analysis,
                   tos_text, company_name, api_key, calls, result, request, rows>>

\* 181-183: the answer to any exception raised inside the handler
UnexpectedError(exc) ==
    LET m_unexpected ==
            <<"A", "n", " ", "u", "n", "e", "x", "p", "e", "c", "t", "e", "d", " ", "e", "r",
              "r", "o", "r", " ", "o", "c", "c", "u", "r", "r", "e", "d">>
    IN  JDict(<<Item(s_error, JStr(m_unexpected)),
                Item(<<"d", "e", "t", "a", "i", "l", "s">>, JStr(ExceptionText(exc)))>>)

\* 110-123: the url of the body; data.get and url.startswith raise
\* AttributeError on a body that is no dict and on a url that is no str
ReadUrl ==
    /\ op = "analyze" /\ pc = "url"
    /\ LET m_no_url ==
               <<"N", "o", " ", "U", "R", "L", " ", "p", "r", "o", "v", "i", "d", "e", "d">>
           m_invalid_url ==
               <<"I", "n", "v", "a", "l", "i", "d", " ", "U", "R", "L", " ", "f", "o", "r", "m",
                 "a", "t", ".", " ", "P", "l", "e", "a", "s", "e", " ", "i", "n", "c", "l", "u",
                 "d", "e", " ", "h", "t", "t", "p", ":", "/", "/", " ", "o", "r", " ", "h", "t",
                 "t", "p", "s", ":", "/", "/">>
           url == Get(request.json, s_url, JNull)
           Answer(code, body) == status' = code /\ result' = Return(body) /\ pc' = "done"
       IN  IF ~isinstance(request.json, "dict")
           THEN Answer(500, UnexpectedError("AttributeError"))
           ELSE IF ~Truthy(url) THEN Answer(400, ErrorRecord(m_no_url))
           ELSE IF ~isinstance(url, "str")
           THEN Answer(500, UnexpectedError("AttributeError"))
           ELSE IF ~(startswith(url.s, <<"h", "t", "t", "p", ":", "/", "/">>)
                     \/ startswith(url.s, <<"h", "t", "t", "p", "s", ":", "/", "/">>))
           THEN Answer(400, ErrorRecord(m_invalid_url))
           ELSE status' = status /\ result' = result /\ pc' = "fetch"
    /\ UNCHANGED <<op, response_text, cleaned_text, recleaned_text, parsed_json, analysis,
                   tos_text, company_name, api_key, calls, request, rows>>

\* 125-130: fetch_tos_document returns the text of the page, or None
FetchDocument ==
    /\ op = "analyze" /\ pc = "fetch"
    /\ calls' = Append(calls, "fetch_tos_document")
    /\ LET m_no_fetch ==
               <<"U", "n", "a", "b", "l", "e", " ", "t", "o", " ", "f", "e", "t", "c", "h", " ",
                 "t", "h", "e", " ", "T", "e", "r", "m", "s", " ", "o", "f", " ", "S", "e", "r",
                 "v", "i", "c", "e", " ", "d", "o", "c", "u", "m", "e", "n", "t", ".", " ", "P",
                 "l", "e", "a", "s", "e", " ", "c", "h", "e", "c", "k", " ", "t", "h", "e", " ",
                 "U", "R", "L", " ", "a", "n", "d", " ", "t", "r", "y", " ", "a", "g", "a", "i",
                 "n", ".">>
       IN  \E text \in TosTexts :
              /\ tos_text' = text
              /\ IF text = <<>>
                 THEN /\ status' = 400
                      /\ result' = Return(ErrorRecord(m_no_fetch))
                      /\ pc' = "done"
                 ELSE status' = status /\ result' = result /\ pc' = "analyze"
    /\ UNCHANGED <<op, response_text, cleaned_text, recleaned_text, parsed_json, analysis,
                   company_name, api_key, request, rows>>

\* 132-135: the company name of the url, then the call of analyze_tos
AnalyzeDocument ==
    /\ op = "analyze" /\ pc = "analyze"
    /\ company_name' \in CompanyNames
    /\ calls' = Append(calls, "analyze_tos")
    /\ op' = "analyze_tos"
    /\ pc' = "start"
    /\ UNCHANGED <<response_text, cleaned_text, recleaned_text, parsed_json, analysis,
                   tos_text, api_key, result, request, status, rows>>

\* 137-183: what analyze_tos returned is answered with 400 when it holds an
\* 'error' member and with 500 when a member is missing; otherwise it is
\* formatted, stored as an Analysis row and answered with 200
StoreAnalysis ==
    /\ op = "analyze_tos" /\ pc = "done"
    /\ calls # <<>> /\ Head(calls) = "fetch_tos_document"
    /\ op' = "analyze"
    /\ analysis' = result.val
    /\ LET m_missing_keys ==
               <<"I", "n", "v", "a", "l", "i", "d", " ", "a", "n", "a", "l", "y", "s", "i", "s",
                 " ", "r", "e", "s", "u", "l", "t", " ", "s", "t", "r", "u", "c", "t", "u", "r",
                 "e", ".", " ", "M", "i", "s", "s", "i", "n", "g", " ", "k", "e", "y", "s", ":",
                 " ">>
           m_category ==
               <<"I", "n", "v", "a", "l", "i", "d", " ", "c", "a", "t", "e", "g", "o", "r", "y",
                 " ", "s", "t", "r", "u", "c", "t", "u", "r", "e", " ", "i", "n", " ", "a", "n",
                 "a", "l", "y", "s", "i", "s", " ", "r", "e", "s", "u", "l", "t">>
           m_no_summary ==
               <<"N", "o", " ", "s", "u", "m", "m", "a", "r", "y", " ", "a", "v", "a", "i", "l",
                 "a", "b", "l", "e", ".">>
           required_keys ==
               {s_initial_assessment, s_categories, s_final_score, s_letter_grade, s_summary,
                s_green_flags, s_red_flags, s_company_name}
           category_keys ==
               {s_name, s_user_friendly_aspect, s_concerning_aspect, s_score, s_justification}
           Answer(code, body) == status' = code /\ result' = Return(body) /\ rows' = rows
           \* 167-179
           Stored(a) ==
               /\ status' = 200
               /\ result' = Return(a)
               /\ rows' = Append(rows, [url |-> Get(request.json, s_url, JNull).s,
                                        company_name |-> company_name,
                                        result |-> json_dumps(a),
                                        user_id |-> request.user])
           \* 153-165: a ValueError of float() is caught, a TypeError is not
           Formatted(final_score, green_flags, red_flags) ==
               IF final_score.exc \notin {"", "ValueError"}
               THEN Answer(500, UnexpectedError(final_score.exc))
               ELSE IF green_flags.exc # "" THEN Answer(500, UnexpectedError(green_flags.exc))
               ELSE IF red_flags.exc # "" THEN Answer(500, UnexpectedError(red_flags.exc))
               ELSE Stored(Set(Set(Set(Set(result.val,
                        s_final_score,
                        IF final_score.exc = "" THEN final_score.val ELSE JFloat(0, 1)),
                        s_green_flags, green_flags.val),
                        s_red_flags, red_flags.val),
                        s_summary, str(Get(result.val, s_summary, JStr(m_no_summary)))))
           \* 148-151: the first category that lacks a key, or on which `in` raises
           Checked(categories) ==
               LET bad == {i \in 1..Len(categories.val.items) :
                             \/ In(s_name, categories.val.items[i].v).exc # ""
                             \/ \E key \in category_keys :
                                   ~In(key, categories.val.items[i].v).val.b}
               IN  IF categories.exc # "" THEN Answer(500, UnexpectedError(categories.exc))
                   ELSE IF bad = {}
                   THEN Formatted(float(Get(result.val, s_final_score, JNull)),
                                  list(Get(result.val, s_green_flags, JList(<<>>))),
                                  list(Get(result.val, s_red_flags, JList(<<>>))))
                   ELSE IF In(s_name, categories.val.items[Least(bad)].v).exc # ""
                   THEN Answer(500, UnexpectedError("TypeError"))
                   ELSE Answer(500, ErrorRecord(m_category))
       IN  IF Has(result.val, s_error) THEN Answer(400, result.val)
           ELSE IF \E key \in required_keys : ~Has(result.val, key)
           THEN Answer(500, ErrorRecord(m_missing_keys \o <<"<missing_keys>">>))
           ELSE Checked(list(Get(result.val, s_categories, JList(<<>>))))
    /\ pc' = "done"
    /\ UNCHANGED <<response_text, cleaned_text, recleaned_text, parsed_json, tos_text,
                   company_name, api_key, calls, request>>

Init == InitRecover \/ InitRepair \/ InitNormalize \/ InitAnalyze \/ InitRoute

Next ==
    \/ ParseRaw \/ Clean \/ ParseCleaned \/ Extract \/ RestructureParsed
    \/ Repair \/ RepairAgain
    \/ Normalize
    \/ CheckArguments \/ ModelReplies \/ ModelFails \/ LoadReply \/ PostProcessReply
    \/ LimitRequest \/ login_required \/ ReadUrl \/ FetchDocument \/ AnalyzeDocument
    \/ StoreAnalysis

Spec == Init /\ [][Next]_vars

\* ------------------------------------------------------------------------
\* Properties
\* ------------------------------------------------------------------------
\* the function o has returned or raised
Done(o) == op = o /\ pc = "done"

\* the seven fields of an assessment record
AssessmentFields ==
    {s_initial_assessment, s_categories, s_final_score, s_letter_grade, s_summary,
     s_green_flags, s_red_flags}

\* a failure record: an 'error' member and no assessment field
IsFailureRecord(v) ==
    /\ isinstance(v, "dict")
    /\ Has(v, s_error)
    /\ \A f \in AssessmentFields : ~Has(v, f)

\* an assessment record: every assessment field and no 'error' member
IsAssessmentRecord(v) ==
    /\ isinstance(v, "dict")
    /\ ~Has(v, s_error)
    /\ \A f \in AssessmentFields : Has(v, f)

\* the four tiers of parse_and_clean_json, in the order of the code
TierOrder == <<"json.loads", "clean_json_response", "json.loads", "extract_structured_data">>

\* x lies in ScoreMin .. ScoreMax
InScoreRange(x) ==
    /\ isinstance(x, "num")
    /\ ~NumLess(x, JInt(ScoreMin))
    /\ ~NumLess(JInt(ScoreMax), x)

\* C1: parse_and_clean_json never raises: for every input text it returns an
\* assessment record or a failure record.
C1_RecoverNeverRaises ==
    Done("parse_and_clean_json") =>
        /\ result.exc = ""
        /\ IsAssessmentRecord(result.val) \/ IsFailureRecord(result.val)

\* C2: once a reply has been received, an error record is returned only after
\* all tiers were tried and failed: strict parsing of the raw text, the repair
\* filters with strict parsing of the repaired text, and field extraction; in
\* parse_and_clean_json and in analyze_tos alike.
C2_ErrorOnlyAfterAllTiers ==
    (/\ pc = "done"
     /\ op \in {"parse_and_clean_json", "analyze_tos"}
     /\ calls # <<>>
     /\ result.exc = ""
     /\ Has(result.val, s_error))
    => /\ Len(calls) >= Len(TierOrder)
       /\ SubSeq(calls, 1, Len(TierOrder)) = TierOrder
       /\ ~json_loads(response_text).ok
       /\ ~json_loads(clean_json_response(response_text)).ok
       /\ ~Truthy(extract_structured_data(clean_json_response(response_text)))

\* C3: in parse_and_clean_json the tiers run in order, each only after the one
\* before it has failed: the repair filters only after the raw text failed to
\* parse, the field extractor only after the repaired text failed to parse too.
\* A text that parses as it stands is neither repaired nor searched, and the
\* result is the restructuring of its strict parse.
C3_TierOrdering ==
    op = "parse_and_clean_json" =>
        /\ calls = SubSeq(TierOrder, 1, Len(calls))
        /\ Len(calls) >= 2 => ~json_loads(response_text).ok
        /\ Len(calls) >= 4 => ~json_loads(cleaned_text).ok
        /\ (pc = "done" /\ json_loads(response_text).ok) =>
                /\ calls = <<"json.loads">>
                /\ result = Restructure(json_loads(response_text).val)

\* a valid document with a category has been restructured after one strict
\* parse and nothing else
C3_ValidInputRestructured ==
    /\ Done("parse_and_clean_json")
    /\ json_loads(response_text).ok
    /\ calls = <<"json.loads">>
    /\ result.exc = ""
    /\ Get(result.val, s_categories, JList(<<>>)).items # <<>>

\* C4: the empty string makes parse_and_clean_json return a failure record,
\* not an assessment record and not an exception.
C4_EmptyTextFails ==
    (Done("parse_and_clean_json") /\ response_text = <<>>) =>
        /\ result.exc = ""
        /\ IsFailureRecord(result.val)

\* C5: what analyze_tos or parse_and_clean_json returns is a failure record or
\* an assessment record, never a mixture: it has an 'error' member and no
\* assessment field, or every assessment field and no 'error' member.
C5_FailureNeverMixed ==
    (/\ pc = "done"
     /\ op \in {"parse_and_clean_json", "analyze_tos"}
     /\ result.exc = "")
    => IsFailureRecord(result.val) \/ IsAssessmentRecord(result.val)

\* C6: clean_json_response is idempotent: applied to its own output it changes
\* nothing.
C6_RepairIdempotent ==
    Done("clean_json_response") => recleaned_text = cleaned_text

\* C7: a document cut off inside its 'categories' array, after one complete
\* element, is repaired into text that parses strictly to the document holding
\* the complete element alone, and parse_and_clean_json raises nothing on it.
C7_TruncationRepaired ==
    (/\ op = "parse_and_clean_json"
     /\ response_text = TruncatedSample
     /\ Len(calls) >= 2)
    => /\ json_loads(cleaned_text).ok
       /\ json_loads(cleaned_text).val =
             JDict(<<Item(s_categories,
                          JList(<<Elem(JDict(<<Item(s_name, JStr(<<"A">>)),
                                               Item(s_score, JInt(5))>>))>>))>>)
       /\ pc = "done" => result.exc = "" /\ IsAssessmentRecord(result.val)

\* C8: a text whose only recoverable structure is the field marker
\* "summary": "X" yields a record whose summary is X and whose other fields
\* are at their defaults.
C8_SummaryExtracted ==
    (/\ Done("parse_and_clean_json")
     /\ response_text \in {SummarySample, ProseSummarySample})
    => /\ result.exc = ""
       /\ result.val =
             JDict(<<Item(s_initial_assessment, JStr(<<>>)),
                     Item(s_categories, JList(<<>>)),
                     Item(s_final_score, JFloat(0, 1)),
                     Item(s_letter_grade, JStr(<<>>)),
                     Item(s_summary, JStr(<<"X">>)),
                     Item(s_green_flags, JList(<<>>)),
                     Item(s_red_flags, JList(<<>>))>>)

\* C9: post_process_analysis returns a record, without raising, for every
\* mapping, whatever its score and final_score members hold.
C9_NormalizeTotal ==
    (Done("post_process_analysis") /\ isinstance(analysis, "dict")) =>
        /\ result.exc = ""
        /\ isinstance(result.val, "dict")
        /\ \A f \in AssessmentFields : Has(result.val, f)

\* C10: in every record post_process_analysis or parse_and_clean_json returns,
\* every category's score lies in the score range 0 .. 10.
C10_CategoryScoresClamped ==
    (/\ pc = "done"
     /\ op \in {"post_process_analysis", "parse_and_clean_json"}
     /\ result.exc = ""
     /\ isinstance(Get(result.val, s_categories, JNull), "list"))
    => \A i \in 1..Len(Get(result.val, s_categories, JNull).items) :
          InScoreRange(Get(Get(result.val, s_categories, JNull).items[i].v, s_score, JNull))

\* C11: in every record post_process_analysis or parse_and_clean_json returns,
\* final_score lies in 0 .. 10, whatever number the input supplied.
C11_FinalScoreClamped ==
    (/\ pc = "done"
     /\ op \in {"post_process_analysis", "parse_and_clean_json"}
     /\ result.exc = ""
     /\ Has(result.val, s_final_score))
    => InScoreRange(Get(result.val, s_final_score, JNull))

\* the sequence a flags member is to become: a sequence stays, a falsy value
\* becomes the empty sequence, any other scalar the sequence holding it
FlagsCoerced(v) ==
    IF isinstance(v, "list") THEN v
    ELSE IF ~Truthy(v) THEN JList(<<>>)
    ELSE JList(<<Elem(v)>>)

\* C12: after normalization green_flags and red_flags are sequences: a bare
\* scalar has become the one-element sequence holding it, a falsy or empty
\* value (None, '', 0, []) the empty sequence; in post_process_analysis and
\* in parse_and_clean_json alike.
C12_FlagsCoercedToSequences ==
    /\ (/\ Done("post_process_analysis")
        /\ isinstance(Get(analysis, s_Overall_Assessment, JNull), "dict"))
       => \A f \in {s_green_flags, s_red_flags} :
             Has(Get(analysis, s_Overall_Assessment, JNull), f) =>
                /\ result.exc = ""
                /\ Get(result.val, f, JNull) =
                      FlagsCoerced(Get(Get(analysis, s_Overall_Assessment, JNull), f, JNull))
    /\ (/\ Done("parse_and_clean_json")
        /\ isinstance(parsed_json, "dict")
        /\ isinstance(Get(parsed_json, s_Overall_Assessment, JNull), "dict"))
       => \A f \in {<<s_Green_Flags, s_green_flags>>, <<s_Red_Flags, s_red_flags>>} :
             Has(Get(parsed_json, s_Overall_Assessment, JNull), f[1]) =>
                /\ result.exc = ""
                /\ Get(result.val, f[2], JNull) =
                      FlagsCoerced(Get(Get(parsed_json, s_Overall_Assessment, JNull), f[1],
                                       JNull))

\* the position of a category name in the declared order
CategoryIndex(name) == CHOOSE i \in 1..Len(category_names) : category_names[i] = name

\* the input of the finished function supplied an entry for the category
CategorySupplied(name) ==
    IF op = "post_process_analysis" THEN Has(analysis, name)
    ELSE IF isinstance(Get(parsed_json, s_Categories, JNull), "dict")
    THEN Has(Get(parsed_json, s_Categories, JNull), name)
    ELSE \E i \in 1..Len(Get(parsed_json, s_Categories, JNull).items) :
            Has(Get(parsed_json, s_Categories, JNull).items[i].v, name)

\* C13: the categories of every record post_process_analysis or
\* parse_and_clean_json returns are categories the input supplied, in the
\* declared order, at most one per declared category: none is invented for a
\* declared category the input lacks.
C13_CategoriesOnlySupplied ==
    (/\ pc = "done"
     /\ op \in {"post_process_analysis", "parse_and_clean_json"}
     /\ result.exc = ""
     /\ isinstance(Get(result.val, s_categories, JNull), "list"))
    => LET cats == Get(result.val, s_categories, JNull).items
           name(i) == Get(cats[i].v, s_name, JNull).s
       IN  /\ Len(cats) <= Len(category_names)
           /\ \A i \in 1..Len(cats) : CategorySupplied(name(i))
           /\ \A i, j \in 1..Len(cats) :
                 i < j => CategoryIndex(name(i)) < CategoryIndex(name(j))

\* the declared type of each assessment field
FieldType(f) ==
    IF f \in {s_initial_assessment, s_letter_grade, s_summary} THEN "str"
    ELSE IF f = s_final_score THEN "num"
    ELSE "list"

\* v is the default of the type of field f: '', the empty sequence, the number 0
IsDefault(f, v) ==
    /\ isinstance(v, FieldType(f))
    /\ CASE FieldType(f) = "str" -> v.s = <<>>
         [] FieldType(f) = "list" -> v.items = <<>>
         [] OTHER -> v.n = 0 /\ v.d # 0

\* C14: after normalization of any mapping every assessment field is present
\* with its declared type, and the normalization of the empty mapping holds
\* nothing but defaults: '' for initial_assessment, letter_grade and summary,
\* the empty sequence for categories, green_flags and red_flags, 0 for
\* final_score.
C14_DefaultsByType ==
    /\ (Done("post_process_analysis") /\ isinstance(analysis, "dict")) =>
          /\ result.exc = ""
          /\ \A f \in AssessmentFields :
                /\ Has(result.val, f)
                /\ isinstance(Get(result.val, f, JNull), FieldType(f))
    /\ (\/ Done("post_process_analysis") /\ analysis = JDict(<<>>)
        \/ Done("parse_and_clean_json") /\ parsed_json = JDict(<<>>) /\ Len(calls) < 4) =>
          /\ result.exc = ""
          /\ \A f \in AssessmentFields :
                Has(result.val, f) /\ IsDefault(f, Get(result.val, f, JNull))

\* largest weight a category is given
MaxWeight == 3

\* the sum of scores[i] * w[i] from i on, in units of 1/den
RECURSIVE WeightedSum(_, _, _, _)
WeightedSum(scores, w, den, i) ==
    IF i > Len(scores) THEN 0
    ELSE scores[i].n * (den \div scores[i].d) * w[i] + WeightedSum(scores, w, den, i + 1)

RECURSIVE TotalWeight(_, _)
TotalWeight(w, i) == IF i > Len(w) THEN 0 ELSE w[i] + TotalWeight(w, i + 1)

\* p/q (q > 0) rounded to the nearest integer, halves away from zero
RoundHalfAway(p, q) ==
    IF p >= 0 THEN (2 * p + q) \div (2 * q) ELSE -((q - 2 * p) \div (2 * q))

\* final is the mean of the scores under weights w, rounded to one decimal
IsWeightedMean(final, scores, w) ==
    LET den == CHOOSE d \in {scores[i].d : i \in 1..Len(scores)} :
                  \A i \in 1..Len(scores) : scores[i].d <= d
    IN  final.n * 10 =
           final.d * RoundHalfAway(10 * WeightedSum(scores, w, den, 1), den * TotalWeight(w, 1))

\* C15: the final_score of a returned record is the weighted mean of its
\* category scores, sum(score_i * weight_i) / sum(weight_i), rounded to one
\* decimal place with halves away from zero, for the weights of its categories.
C15_FinalScoreIsWeightedMean ==
    (/\ pc = "done"
     /\ op \in {"post_process_analysis", "parse_and_clean_json"}
     /\ result.exc = ""
     /\ isinstance(Get(result.val, s_final_score, JNull), "num")
     /\ Get(result.val, s_final_score, JNull).d # 0
     /\ isinstance(Get(result.val, s_categories, JNull), "list")
     /\ Get(result.val, s_categories, JNull).items # <<>>
     /\ \A i \in 1..Len(Get(result.val, s_categories, JNull).items) :
           InScoreRange(Get(Get(result.val, s_categories, JNull).items[i].v, s_score, JNull)))
    => LET cats == Get(result.val, s_categories, JNull).items
           scores == [i \in 1..Len(cats) |-> Get(cats[i].v, s_score, JNull)]
       IN  \E w \in [1..Len(cats) -> 1..MaxWeight] :
              IsWeightedMean(Get(result.val, s_final_score, JNull), scores, w)

\* the body of the request is a JSON object without a url, or with an empty one
NoUrl ==
    /\ isinstance(request.json, "dict")
    /\ Get(request.json, s_url, JStr(<<>>)) \in {JStr(<<>>), JNull}

\* C16: every POST to /analyze whose body carries no url is answered with
\* status 400 and the error 'No URL provided', whoever sends it, logged in or
\* not; no document is fetched, no analysis is run and no Analysis row is
\* stored for it.  Stated for the requests the rate limit lets through.
C16_NoUrlAnswered400 ==
    (Done("analyze") /\ NoUrl /\ request.recent < RateLimit) =>
        /\ status = 400
        /\ result.exc = ""
        /\ Get(result.val, s_error, JNull) =
              JStr(<<"N", "o", " ", "U", "R", "L", " ", "p", "r", "o", "v", "i", "d", "e", "d">>)
        /\ calls = <<>>
        /\ rows = <<>>

\* v is a mapping in the layout the prompt asks for: every assessment field,
\* each of its declared type
IsPromptShaped(v) ==
    /\ isinstance(v, "dict")
    /\ \A f \in AssessmentFields : Has(v, f) /\ isinstance(Get(v, f, JNull), FieldType(f))

\* C17: when the reply is valid JSON in the layout the prompt asks for, the
\* record analyze_tos returns carries the reply's own values, final_score
\* clamped to 0 .. 10: no field the reply supplied is replaced by a default.
C17_ReplyValuesPreserved ==
    (Done("analyze_tos") /\ IsPromptShaped(parsed_json)) =>
        /\ result.exc = ""
        /\ \A f \in AssessmentFields \ {s_final_score} :
              Get(result.val, f, JNull) = Get(parsed_json, f, JNull)
        /\ LET clamped == max(JInt(ScoreMin), min(JInt(ScoreMax),
                                                   Get(parsed_json, s_final_score, JNull)))
               final == Get(result.val, s_final_score, JNull)
           IN  isinstance(final, "num") /\ ~NumLess(final, clamped) /\ ~NumLess(clamped, final)

====
